---- MODULE Spec2Model ----
(***************************************************************************)
(* A model of the doclet helpers of jsdoc (lib/jsdoc/util/templateHelper): *)
(* the doclet collection with its event-listener back-references and       *)
(* ancestor walk, the listing of members, the registries of file names,    *)
(* identifiers and links, and the swappable tag dictionary with the tag    *)
(* parsing that depends on it; and of the loggers (lib/jsdoc/util/logger   *)
(* and the Logger class).                                                  *)
(***************************************************************************)
EXTENDS Naturals, Sequences, FiniteSets, TLC

(***************************************************************************)
(* Bounds of the model.                                                    *)
(***************************************************************************)
MaxDoclets == 2
MaxListens == 2
MaxRuns == 2
MaxChain == 3
MaxOvershoot == 2
MaxTags == 3
MaxComments == 2
MaxConstructs == 1
MaxFiles == 2
MaxCalls == 3
MaxLogCalls == 2
MaxLoggers == 1
MaxLinktoCalls == 2
MaxTokens == 3
MaxPruned == 2

(***************************************************************************)
(* Values.                                                                 *)
(***************************************************************************)
\* The JavaScript value undefined, where a string is expected.
Undefined == "<undefined>"

\* Longnames of the doclets of the listener collections.
Names == {"A", "B"}

\* Longnames of the doclets of the ancestor collections.
ChainNames == {"P", "Q", "R"}

\* The kinds of the doclets of the listener collections.
Kinds == {"event", "function"}

RECURSIVE SeqsUpTo(_, _)
SeqsUpTo(S, n) ==
    IF n = 0 THEN {<<>>}
    ELSE LET shorter == SeqsUpTo(S, n - 1)
         IN shorter \cup {Append(s, x) : s \in {t \in shorter : Len(t) = n - 1}, x \in S}

Range(s) == {s[i] : i \in DOMAIN s}

VARIABLES
    data,        \* the doclet collection (TaffyDB database), in insertion order
    runs,        \* how many times addEventListeners has run on data
    pc,          \* getAncestors: "idle", "loop" (inside the while loop) or "done"
    start,       \* getAncestors: index in data of the doclet argument
    doc,         \* getAncestors: index in data of the local doc, 0 when undefined
    ancestors,   \* getAncestors: indices in data of the local ancestors array
    dictionary,          \* templateHelper's module variable dictionary
    tagDictionary,       \* the dictionary the tag parser looks tags up in
    originalDictionary,  \* the test helper's handle to the dictionary of start-up
    activeName,          \* the name the test helper last activated, "original" if none
    allowUnknownTags,    \* env.conf.tags.allowUnknownTags
    confAllowUnknownTags,\* the configured value the test saved
    errorCalls,          \* calls of logger.error since the spy was installed
    fixture,             \* the input of the last getDocSetFromFile call
    docSet,              \* what the last getDocSetFromFile call produced
    ret,                 \* the return value of the last _replaceDictionary call
    lastArg,             \* the argument of the last _replaceDictionary call
    prevDictionary,      \* templateHelper's dictionary before that call
    beforeSwap,          \* the answers of the queries before the pending swap
    swapped,             \* whether a swap is pending (not yet restored)
    lastOp,              \* the operation that led to this state
    members,             \* what the last getMembers call returned
    files,               \* templateHelper's registry of file names: key -> string
    ids,                 \* templateHelper's registry of identifiers: file -> key -> id
    longnameToUrl,       \* linkMap.longnameToUrl
    urlToLongname,       \* linkMap.urlToLongname
    longnameToId,        \* linkMap.longnameToId
    calls,               \* the calls made so far, with their results
    logLevel,            \* jsdoc/util/logger: the module variable logLevel
    printed,             \* jsdoc/util/logger: the calls of the wrapped print functions
    emitted,             \* jsdoc/util/logger: the events the module object emitted
    loggers,             \* the Logger objects constructed so far, with their _level
    consoleCalls,        \* the calls the Logger objects made on their console
    thrown,              \* what the last operation on a Logger threw, "" if nothing
    opts,                \* env.opts: the access and private options
    parseEvent           \* e, the event of the last beforeParse call

dataVars == <<data, runs, pc, start, doc, ancestors>>

dictVars == <<dictionary, tagDictionary, originalDictionary, activeName,
              allowUnknownTags, confAllowUnknownTags, errorCalls, fixture, docSet,
              ret, lastArg, prevDictionary, beforeSwap, swapped, lastOp>>

helperVars == <<members, files, ids, longnameToUrl, urlToLongname, longnameToId, calls>>

logVars == <<logLevel, printed, emitted, loggers, consoleCalls, thrown>>

envVars == <<opts, parseEvent>>

vars == <<dataVars, dictVars, helperVars, logVars, envVars>>

(***************************************************************************)
(* Doclets.  listeners is an optional field: hasListeners tells whether    *)
(* the field exists.                                                       *)
(***************************************************************************)
Doclet(longname, kind, memberof, listens) ==
    [longname |-> longname, kind |-> kind, memberof |-> memberof,
     listens |-> listens, hasListeners |-> FALSE, listeners |-> <<>>]

\* The result order of a TaffyDB query: the matching doclets (indices in data)
\* in collection order.
RECURSIVE inOrder(_, _, _)
inOrder(S, i, n) ==
    IF i > n THEN <<>>
    ELSE (IF i \in S THEN <<i>> ELSE <<>>) \o inOrder(S, i + 1, n)

\* find(data, spec) with an object spec: the doclets whose fields equal the
\* fields of spec, as indices in data.
find(d, spec) ==
    inOrder({i \in DOMAIN d : \A f \in DOMAIN spec : d[i][f] = spec[f]}, 1, Len(d))

\* s[0]: the first element, 0 for undefined.
first(s) == IF Len(s) = 0 THEN 0 ELSE s[1]

(***************************************************************************)
(* addEventListeners                                                       *)
(***************************************************************************)
\* find(data, function () { return this.listens && this.listens.length; })
findListeners(d) ==
    inOrder({i \in DOMAIN d : Len(d[i].listens) > 0}, 1, Len(d))

findEvent_anyKind(d, eventLongname) ==
    first(find(d, [longname |-> eventLongname]))

\* find(data, {longname: eventLongname, kind: 'event'})[0]
findEvent(d, eventLongname) ==
    first(find(d, [longname |-> eventLongname, kind |-> "event"]))

attachListener_overwrite(x, listenerLongname) ==
    [x EXCEPT !.hasListeners = TRUE, !.listeners = <<listenerLongname>>]

\* if (!doc.listeners) doc.listeners = [longname]; else doc.listeners.push(longname);
attachListener(x, listenerLongname) ==
    IF ~x.hasListeners
    THEN [x EXCEPT !.hasListeners = TRUE, !.listeners = <<listenerLongname>>]
    ELSE [x EXCEPT !.listeners = Append(x.listeners, listenerLongname)]

\* The inner forEach over listener.listens, from entry j on.  st is the pair of
\* the collection and the _events cache (event longname -> index in data).
RECURSIVE forEachListens(_, _, _)
forEachListens(st, listener, j) ==
    LET l == st.data[listener].listens
    IN IF j > Len(l) THEN st
       ELSE LET eventLongname == l[j]
                found == IF eventLongname \in DOMAIN st.events
                         THEN st.events[eventLongname]
                         ELSE findEvent(st.data, eventLongname)
            IN IF found # 0
               THEN forEachListens(
                        [data |-> [st.data EXCEPT ![found] =
                                       attachListener(@, st.data[listener].longname)],
                         events |-> IF eventLongname \in DOMAIN st.events
                                    THEN st.events
                                    ELSE (eventLongname :> found) @@ st.events],
                        listener, j + 1)
               ELSE forEachListens(st, listener, j + 1)

\* The outer forEach over the listener doclets, from the k-th listener on.
RECURSIVE forEachListener(_, _, _)
forEachListener(st, listeners, k) ==
    IF k > Len(listeners) THEN st
    ELSE forEachListener(forEachListens(st, listeners[k], 1), listeners, k + 1)

\* The collection after addEventListeners(data).
addEventListeners(d) ==
    LET listeners == findListeners(d)
    IN IF Len(listeners) = 0 THEN d
       ELSE forEachListener([data |-> d, events |-> <<>>], listeners, 1).data

(***************************************************************************)
(* getAncestors, one loop iteration at a time.                             *)
(***************************************************************************)
\* find(data, {longname: doc.memberof})[0]
findParent(d, x) ==
    first(find(d, [longname |-> x.memberof]))

(***************************************************************************)
(* Tag dictionaries.  A dictionary is the set of its tag names, its        *)
(* synonyms (pairs <<synonym, canonical name>>) and its namespace kinds.   *)
(***************************************************************************)
\* The titles a tag is looked up by.
TagTitles == {"author", "class", "constructor", "polymerBehavior", "bogus"}

\* The kinds asked of isNamespace.
NamespaceKinds == {"module", "event", "class"}

\* new Dictionary(), before any tag is defined.
EmptyDictionary == [tags |-> {}, synonyms |-> {}, namespaces |-> {}]

\* The dictionary of the JSDoc tags: it has no polymerBehavior tag.
JsdocDictionary ==
    [tags |-> {"author", "class"},
     synonyms |-> {<<"constructor", "class">>},
     namespaces |-> {"module", "event"}]

\* The dictionary of the Closure Compiler tags: it has the polymerBehavior tag.
ClosureDictionary ==
    [tags |-> {"author", "constructor", "polymerBehavior"},
     synonyms |-> {},
     namespaces |-> {"module", "event"}]

\* A dictionary of a caller's own making, in which class is a namespace kind.
CustomDictionary == [tags |-> {"author"}, synonyms |-> {}, namespaces |-> {"class"}]

DictionaryNames == {"jsdoc", "closure"}

\* The dictionary the test helper builds for a dictionary name.
builtIn(dictionaryName) ==
    IF dictionaryName = "jsdoc" THEN JsdocDictionary ELSE ClosureDictionary

Dictionaries == {JsdocDictionary, ClosureDictionary, EmptyDictionary, CustomDictionary}

\* dictionary.normalise(title): the canonical name of a title.
normalise(dict, title) ==
    IF \E p \in dict.synonyms : p[1] = title
    THEN (CHOOSE p \in dict.synonyms : p[1] = title)[2]
    ELSE title

lookUp_anyTitle(dict, title) == title

\* dictionary.lookUp(title): the canonical name of the tag definition, or
\* Undefined when the dictionary has no such tag.
lookUp(dict, title) ==
    LET canonical == normalise(dict, title)
    IN IF canonical \in dict.tags THEN canonical ELSE Undefined

\* dictionary.isNamespace(kind)
isNamespace(dict, kind) == kind \in dict.namespaces

\* dictionary.getNamespaces()
getNamespaces(dict) == dict.namespaces

(***************************************************************************)
(* templateHelper's uses of its dictionary.                                *)
(***************************************************************************)
\* getNamespace(kind)
getNamespace(kind) == IF isNamespace(dictionary, kind) THEN kind \o ":" ELSE ""

\* getUniqueFilename: the namespaces of the prefix pattern
\* new RegExp('^(' + namespaces + '):'), as a set of alternatives.
filenameNamespaces == getNamespaces(dictionary)

_replaceDictionary_merge(dict) ==
    [dictionary |-> [tags |-> dictionary.tags \cup dict.tags,
                     synonyms |-> dictionary.synonyms \cup dict.synonyms,
                     namespaces |-> dictionary.namespaces \cup dict.namespaces],
     ret |-> <<>>]

_replaceDictionary_returnsPrevious(dict) ==
    [dictionary |-> dict, ret |-> <<dictionary>>]

_replaceDictionary_noop(dict) ==
    [dictionary |-> dictionary, ret |-> <<>>]

\* exports._replaceDictionary(dict): the new value of the module variable and
\* the return value (<<>> for undefined, <<d>> for a dictionary d).
_replaceDictionary(dict) ==
    [dictionary |-> dict, ret |-> <<>>]

\* The answers of the queries templateHelper makes of its dictionary.
HelperQueries ==
    [namespace |-> [k \in NamespaceKinds |-> getNamespace(k)],
     namespaces |-> filenameNamespaces]

\* The answers of the tag parser's lookups.
ParserQueries == [t \in TagTitles |-> lookUp(tagDictionary, t)]

(***************************************************************************)
(* Parsing a file into a doc set: one doclet per comment, each tag of the  *)
(* comment looked up in the dictionary and applied.                        *)
(***************************************************************************)
Tag(title, value) == [title |-> title, value |-> value]

TagsOfFixtures ==
    {Tag("author", "Jane Doe"), Tag("author", "John Doe"), Tag("polymerBehavior", "")}

Comments == SeqsUpTo(TagsOfFixtures, MaxTags)

\* The files of at most k comments with at most t tags in all.
RECURSIVE FilesUpTo(_, _)
FilesUpTo(k, t) ==
    IF k = 0 THEN {<<>>}
    ELSE {<<>>} \cup UNION {
             {<<c>> \o f : c \in {x \in Comments : Len(x) = n},
                           f \in FilesUpTo(k - 1, t - n)} : n \in 0..t}

Fixtures == FilesUpTo(MaxComments, MaxTags)

\* A doclet before its tags are applied.
NewDoclet == [author |-> <<>>, polymerBehavior |-> FALSE, tags |-> <<>>]

onTagged_overwrite(doclet, canonical, value) ==
    IF canonical = "author" THEN [doclet EXCEPT !.author = <<value>>]
    ELSE IF canonical = "polymerBehavior" THEN [doclet EXCEPT !.polymerBehavior = TRUE]
    ELSE doclet

\* The onTagged handler of a tag definition: author is repeatable and appends
\* to the author array; polymerBehavior marks the doclet.
onTagged(doclet, canonical, value) ==
    IF canonical = "author" THEN [doclet EXCEPT !.author = Append(@, value)]
    ELSE IF canonical = "polymerBehavior" THEN [doclet EXCEPT !.polymerBehavior = TRUE]
    ELSE doclet

validate_ignoresConf(canonical) == IF canonical = Undefined THEN 1 ELSE 0

\* The number of logger.error calls a tag causes: one for an unknown tag
\* when unknown tags are not allowed.
validate(canonical) ==
    IF canonical = Undefined /\ ~allowUnknownTags THEN 1 ELSE 0

\* One tag applied to the doclet in progress; st is [doclet, errors].
addTag(st, tag) ==
    LET canonical == lookUp(tagDictionary, tag.title)
        errors == st.errors + validate(canonical)
    IN IF canonical # Undefined
       THEN [doclet |-> onTagged(st.doclet, canonical, tag.value), errors |-> errors]
       ELSE IF allowUnknownTags
            THEN [doclet |-> [st.doclet EXCEPT !.tags = Append(@, tag)], errors |-> errors]
            ELSE [doclet |-> st.doclet, errors |-> errors]

RECURSIVE parseTags(_, _, _)
parseTags(st, comment, i) ==
    IF i > Len(comment) THEN st
    ELSE parseTags(addTag(st, comment[i]), comment, i + 1)

\* The comments from the c-th on; ds is [docs, errors].
RECURSIVE parseComments(_, _, _)
parseComments(ds, f, c) ==
    IF c > Len(f) THEN ds
    ELSE LET st == parseTags([doclet |-> NewDoclet, errors |-> 0], f[c], 1)
         IN parseComments([docs |-> Append(ds.docs, st.doclet),
                           errors |-> ds.errors + st.errors], f, c + 1)

NoDocSet == [docs |-> <<>>, errors |-> 0]

\* getDocSetFromFile(fixture)
getDocSetFromFile(f) == parseComments(NoDocSet, f, 1)

(***************************************************************************)
(* Strings whose characters matter are sequences of one-character strings. *)
(***************************************************************************)
\* undefined, where such a string is expected
NoString == <<Undefined>>

\* var MODULE_NAMESPACE = 'module:';
MODULE_NAMESPACE == <<"m", "o", "d", "u", "l", "e", ":">>

\* s.indexOf(p) === 0
startsWith(s, p) == Len(s) >= Len(p) /\ SubSeq(s, 1, Len(p)) = p

(***************************************************************************)
(* Source files and the doclets the name resolver gives their constructs.  *)
(***************************************************************************)
Construct(kind, name, description, isDefault) ==
    [kind |-> kind, name |-> name, description |-> description, isDefault |-> isDefault]

Symbol(name, longname, kind, memberof, scope, description) ==
    [name |-> name, longname |-> longname, kind |-> kind, memberof |-> memberof,
     scope |-> scope, description |-> description]

\* The module a source file declares, if it declares one.
ModuleNames == {<<"t">>}

\* A named value, a named function, an external with a quoted name.
NamedConstructs ==
    {Construct(k, <<"x">>, "Other value", FALSE) : k \in {"member", "function"}}
        \cup {Construct("external", <<"\"", "j", "\"">>, "", FALSE)}

\* export default <value>; export default function() {}
DefaultExports == {Construct(k, <<>>, "Test value", TRUE) : k \in {"member", "function"}}

isDefaultExport(c) == c.isDefault

\* The files: a file without a module declaration holds named constructs; a
\* module holds named constructs and at most one default export.
SourceFiles ==
    {[module |-> NoString, constructs |-> cs] :
        cs \in SeqsUpTo(NamedConstructs, MaxConstructs)}
    \cup
    {[module |-> m, constructs |-> cs] :
        m \in ModuleNames,
        cs \in {c \in SeqsUpTo(NamedConstructs \cup DefaultExports, MaxConstructs) :
                   Cardinality({i \in DOMAIN c : isDefaultExport(c[i])}) <= 1}}

\* The doclet of a module declaration.
moduleDoclet(m) == Symbol(m, MODULE_NAMESPACE \o m, "module", NoString, Undefined, "")

\* A variant of resolve that treats a default export as a member named default.
resolve_defaultIsMember(c, scope) ==
    IF scope # NoString
    THEN Symbol(IF c.isDefault THEN <<"d">> ELSE c.name,
                scope \o <<".">> \o (IF c.isDefault THEN <<"d">> ELSE c.name),
                c.kind, scope, "static", c.description)
    ELSE Symbol(c.name, c.name, c.kind, NoString, "global", c.description)

\* resolve(doclet, scopeStack): the sole value a module exports takes the
\* module's longname as name and longname; a member of a module is qualified
\* by the module's longname; in the global scope memberof is absent and the
\* longname is the name.
resolve(c, scope) ==
    IF c.isDefault /\ scope # NoString
    THEN Symbol(scope, scope, c.kind, NoString, "static", c.description)
    ELSE IF scope # NoString
    THEN Symbol(c.name, scope \o <<".">> \o c.name, c.kind, scope, "static", c.description)
    ELSE Symbol(c.name, c.name, c.kind, NoString, "global", c.description)

\* The doclets of a source file, in source order.
parseSource(f) ==
    IF f.module = NoString
    THEN [i \in DOMAIN f.constructs |-> resolve(f.constructs[i], NoString)]
    ELSE <<moduleDoclet(f.module)>>
            \o [i \in DOMAIN f.constructs |->
                    resolve(f.constructs[i], MODULE_NAMESPACE \o f.module)]

(***************************************************************************)
(* File names: getUniqueFilename                                           *)
(***************************************************************************)
\* The letters, for toLowerCase and toUpperCase, and the digits.
LowerCaseLetters ==
    <<"a", "b", "c", "d", "e", "f", "g", "h", "i", "j", "k", "l", "m", "n",
      "o", "p", "q", "r", "s", "t", "u", "v", "w", "x", "y", "z">>

UpperCaseLetters ==
    <<"A", "B", "C", "D", "E", "F", "G", "H", "I", "J", "K", "L", "M", "N",
      "O", "P", "Q", "R", "S", "T", "U", "V", "W", "X", "Y", "Z">>

Digits == {"0", "1", "2", "3", "4", "5", "6", "7", "8", "9"}

\* c.toLowerCase(), one character
lowerChar(c) ==
    IF \E i \in DOMAIN UpperCaseLetters : UpperCaseLetters[i] = c
    THEN LowerCaseLetters[CHOOSE i \in DOMAIN UpperCaseLetters : UpperCaseLetters[i] = c]
    ELSE c

toLowerCase(s) == [i \in DOMAIN s |-> lowerChar(s[i])]

\* s.replace(/[chars]/g, by)
replaceChars(s, chars, by) == [i \in DOMAIN s |-> IF s[i] \in chars THEN by ELSE s[i]]

\* The characters of the kinds that dictionaries declare as namespaces.
Chars(str) ==
    CASE str = "module" -> <<"m", "o", "d", "u", "l", "e">>
      [] str = "event" -> <<"e", "v", "e", "n", "t">>
      [] str = "class" -> <<"c", "l", "a", "s", "s">>
      [] str = "module:" -> MODULE_NAMESPACE
      [] str = "event:" -> <<"e", "v", "e", "n", "t", ":">>
      [] str = "class:" -> <<"c", "l", "a", "s", "s", ":">>
      [] str = "external" -> <<"e", "x", "t", "e", "r", "n", "a", "l">>
      [] str = "namespace" -> <<"n", "a", "m", "e", "s", "p", "a", "c", "e">>
      [] str = "mixin" -> <<"m", "i", "x", "i", "n">>
      [] str = "interface" -> <<"i", "n", "t", "e", "r", "f", "a", "c", "e">>
      [] str = "" -> <<>>

\* s.replace(new RegExp('^(' + namespaces + '):'), '$1-'); with no namespace
\* at all the expression is ^(): and matches a leading colon.
replaceNamespaceColon(s, namespaces) ==
    LET prefixes == IF namespaces = {} THEN {<<>>} ELSE {Chars(ns) : ns \in namespaces}
        matching == {q \in prefixes : startsWith(s, q \o <<":">>)}
    IN IF matching = {} THEN s
       ELSE LET q == CHOOSE m \in matching : TRUE
            IN [s EXCEPT ![Len(q) + 1] = "-"]

\* s.replace(/\([\s\S]*\)$/, ''): from the first opening parenthesis on, when
\* the string ends with a closing one.
removeVariation(s) ==
    LET opening == {i \in DOMAIN s : s[i] = "("}
    IN IF Len(s) > 0 /\ s[Len(s)] = ")" /\ opening # {}
       THEN SubSeq(s, 1, (CHOOSE i \in opening : \A j \in opening : i <= j) - 1)
       ELSE s

\* s.replace(/^[\.\-]/, '')
removeLeadingDotOrDash(s) ==
    IF Len(s) > 0 /\ s[1] \in {".", "-"} THEN Tail(s) ELSE s

\* exports.fileExtension = '.html';
fileExtension == <<".", "h", "t", "m", "l">>

\* while (nonUnique) { if (hasOwnProp.call(files, key)) { filename += '_'; ... } }
RECURSIVE appendUnderscores(_, _)
appendUnderscores(keys, name) ==
    IF toLowerCase(name) \in keys THEN appendUnderscores(keys, name \o <<"_">>) ELSE name

\* A variant of makeUniqueFilename whose keys keep the capitalisation.
makeUniqueFilename_caseSensitive(fs, filename, str) ==
    LET name == IF Len(filename) = 0 \/ filename[1] = "_" THEN <<"-">> \o filename
                ELSE filename
        RECURSIVE more(_)
        more(n) == IF n \in DOMAIN fs THEN more(n \o <<"_">>) ELSE n
    IN [files |-> (more(name) :> str) @@ fs, filename |-> more(name)]

\* makeUniqueFilename(filename, str), on the registry fs.
makeUniqueFilename(fs, filename, str) ==
    LET name == IF Len(filename) = 0 \/ filename[1] = "_" THEN <<"-">> \o filename
                ELSE filename
        unique == appendUnderscores(DOMAIN fs, name)
    IN [files |-> (toLowerCase(unique) :> str) @@ fs, filename |-> unique]

\* The basename getUniqueFilename derives from str.
basenameOf(str) ==
    LET s0 == IF str = NoString THEN <<>> ELSE str
        s1 == replaceNamespaceColon(s0, filenameNamespaces)
        s2 == replaceChars(s1, {"\\", "/", "?", "*", ":", "|", "'", "\"", "<", ">"}, "-")
        s3 == replaceChars(s2, {"~"}, "-")
        s4 == replaceChars(s3, {"#"}, "_")
        s5 == replaceChars(s4, {"/"}, "_")
        s6 == removeVariation(s5)
        s7 == removeLeadingDotOrDash(s6)
    IN IF Len(s7) > 0 THEN s7 ELSE <<"_">>

\* getUniqueFilename(str), on the registry fs.
getUniqueFilename(fs, str) ==
    LET r == makeUniqueFilename(fs, basenameOf(str), str)
    IN [files |-> r.files, filename |-> r.filename \o fileExtension]

(***************************************************************************)
(* Identifiers: getUniqueId                                                *)
(***************************************************************************)
\* id.replace(/\s/g, '')
removeWhitespace(s) == SelectSeq(s, LAMBDA c : c \notin {" ", "\t", "\n"})

\* hasOwnProp.call(ids, filename) && hasOwnProp.call(ids[filename], key)
hasId(registry, filename, key) ==
    filename \in DOMAIN registry /\ key \in DOMAIN registry[filename]

\* while (nonUnique) { if (has key) { id += '_'; key = id.toLowerCase(); } }
RECURSIVE uniqueIdFrom(_, _, _, _)
uniqueIdFrom(registry, filename, key, id) ==
    IF hasId(registry, filename, key)
    THEN uniqueIdFrom(registry, filename, toLowerCase(id \o <<"_">>), id \o <<"_">>)
    ELSE [key |-> key, id |-> id]

\* makeUniqueId(filename, id), on the registry: the key is taken from the id
\* as passed, then the id loses its whitespace.
makeUniqueId(registry, filename, id) ==
    LET r == uniqueIdFrom(registry, filename, toLowerCase(id), removeWhitespace(id))
        own == IF filename \in DOMAIN registry THEN registry[filename] ELSE <<>>
    IN [ids |-> (filename :> ((r.key :> r.id) @@ own)) @@ registry, id |-> r.id]

\* var getUniqueId = exports.getUniqueId = makeUniqueId;
getUniqueId(registry, filename, id) == makeUniqueId(registry, filename, id)

(***************************************************************************)
(* getMembers                                                              *)
(***************************************************************************)
\* A variant of isModuleExports that knows no module exports.
isModuleExports_never(doclet) == FALSE

isModuleExports(doclet) ==
    /\ doclet.longname # NoString
    /\ doclet.longname # <<>>
    /\ doclet.longname = doclet.name
    /\ startsWith(doclet.longname, MODULE_NAMESPACE)
    /\ doclet.kind # "module"

\* kind: ['member', 'function', 'constant', 'typedef']
GlobalKinds == {"member", "function", "constant", "typedef"}

\* find(data, {kind: [...], memberof: {isUndefined: true}})
findGlobals(d) ==
    inOrder({i \in DOMAIN d : d[i].kind \in GlobalKinds /\ d[i].memberof = NoString},
            1, Len(d))

\* name.replace(/(^"|"$)/g, '')
stripQuotes(s) ==
    LET a == IF Len(s) > 0 /\ s[1] = "\"" THEN Tail(s) ELSE s
    IN IF Len(a) > 0 /\ a[Len(a)] = "\"" THEN SubSeq(a, 1, Len(a) - 1) ELSE a

\* getMembers(data): the lists hold indices in data; the names of the
\* externals lose their quotes in the collection itself.
getMembers(d) ==
    LET externals == find(d, [kind |-> "external"])
        globals == findGlobals(d)
    IN [data |-> [i \in DOMAIN d |->
                    IF i \in Range(externals)
                    THEN [d[i] EXCEPT !.name = stripQuotes(d[i].name)]
                    ELSE d[i]],
        members |->
            [classes |-> find(d, [kind |-> "class"]),
             externals |-> externals,
             events |-> find(d, [kind |-> "event"]),
             globals |-> SelectSeq(globals, LAMBDA i : ~isModuleExports(d[i])),
             mixins |-> find(d, [kind |-> "mixin"]),
             modules |-> find(d, [kind |-> "module"]),
             namespaces |-> find(d, [kind |-> "namespace"]),
             interfaces |-> find(d, [kind |-> "interface"])]]

(***************************************************************************)
(* Links: createLink                                                       *)
(***************************************************************************)
\* var containers = ['class', 'module', 'external', 'namespace', 'mixin', 'interface'];
containers == {"class", "module", "external", "namespace", "mixin", "interface"}

\* exports.globalName = name.SCOPE.NAMES.GLOBAL;
globalName == <<"g", "l", "o", "b", "a", "l">>

\* exports.scopeToPunc = name.scopeToPunc; '' for a scope without punctuation.
scopeToPunc(scope) ==
    CASE scope = "instance" -> <<"#">>
      [] scope = "static" -> <<".">>
      [] scope = "inner" -> <<"~">>
      [] OTHER -> <<>>

\* A doclet as createLink reads it; variation is absent when NoString.
LinkDoclet(name, longname, kind, memberof, scope, variation) ==
    [name |-> name, longname |-> longname, kind |-> kind, memberof |-> memberof,
     scope |-> scope, variation |-> variation]

\* A value as the left operand of ||: undefined and '' are falsy.
truthy(s) == s # NoString /\ s # <<>>

\* formatNameForLink(doclet, options): doclet.variation && options.prependScope
\* is the value of options.prependScope when the doclet has a variation.
formatNameForLink(doclet, prependScope) ==
    LET newName == Chars(getNamespace(doclet.kind))
                    \o (IF truthy(doclet.name) THEN doclet.name ELSE <<>>)
                    \o (IF truthy(doclet.variation) /\ prependScope
                        THEN <<"t", "r", "u", "e">> ELSE <<>>)
        scopePunc == scopeToPunc(doclet.scope)
    IN IF scopePunc # <<"#">> /\ prependScope THEN scopePunc \o newName ELSE newName

\* The registries of templateHelper as one value.
Registries ==
    [files |-> files, ids |-> ids, longnameToUrl |-> longnameToUrl,
     urlToLongname |-> urlToLongname, longnameToId |-> longnameToId]

\* registerLink(longname, fileUrl)
registerLink(st, longname, fileUrl) ==
    [st EXCEPT !.longnameToUrl = (longname :> fileUrl) @@ st.longnameToUrl,
               !.urlToLongname = (fileUrl :> longname) @@ st.urlToLongname]

\* registerId(longname, fragment)
registerId(st, longname, fragment) ==
    [st EXCEPT !.longnameToId = (longname :> fragment) @@ st.longnameToId]

\* A variant of getFilename that never looks the longname up.
getFilename_unregistered(st, longname) ==
    LET r == getUniqueFilename(st.files, longname)
    IN [st |-> registerLink([st EXCEPT !.files = r.files], longname, r.filename),
        fileUrl |-> r.filename]

\* getFilename(longname): the registries afterwards and the file name.
getFilename(st, longname) ==
    IF longname \in DOMAIN st.longnameToUrl
    THEN [st |-> st, fileUrl |-> st.longnameToUrl[longname]]
    ELSE LET r == getUniqueFilename(st.files, longname)
         IN [st |-> registerLink([st EXCEPT !.files = r.files], longname, r.filename),
             fileUrl |-> r.filename]

\* getId(longname, id): the registries afterwards and the identifier.
getId(st, longname, id) ==
    IF longname \in DOMAIN st.longnameToId
    THEN [st |-> st, id |-> st.longnameToId[longname]]
    ELSE IF id = <<>>
    THEN [st |-> st, id |-> <<>>]
    ELSE LET r == makeUniqueId(st.ids, longname, id)
         IN [st |-> registerId([st EXCEPT !.ids = r.ids], longname, r.id), id |-> r.id]

\* fragmentHash(fragmentId)
fragmentHash(fragmentId) == IF fragmentId = <<>> THEN <<>> ELSE <<"#">> \o fragmentId

\* encodeURI, one character: a space and a percent sign are escaped, the
\* letters and the punctuation of names and file names are kept.
encodeChar(c) ==
    IF c = " " THEN <<"%", "2", "0">>
    ELSE IF c = "%" THEN <<"%", "2", "5">>
    ELSE <<c>>

RECURSIVE encodeURI(_)
encodeURI(s) == IF s = <<>> THEN <<>> ELSE encodeChar(Head(s)) \o encodeURI(Tail(s))

\* /(\S+):/.exec(longname): match[1], NoString when there is no match.  The
\* match starts at the first character that a run of non-whitespace
\* characters links to a colon, and extends to the last such colon.
execBeforeColon(longname) ==
    LET s == IF longname = NoString THEN <<>> ELSE longname
        P == {p \in (DOMAIN s) \X (DOMAIN s) :
                /\ p[1] < p[2]
                /\ s[p[2]] = ":"
                /\ \A k \in p[1]..(p[2] - 1) : s[k] \notin {" ", "\t", "\n"}}
    IN IF P = {} THEN NoString
       ELSE LET i == CHOOSE a \in {p[1] : p \in P} : \A p \in P : a <= p[1]
                j == CHOOSE b \in {p[2] : p \in {q \in P : q[1] = i}} :
                        \A p \in {q \in P : q[1] = i} : p[2] <= b
            IN SubSeq(s, i, j - 1)

\* createLink(doclet): the registries afterwards and the URL.
createLink(st, doclet) ==
    LET longname == doclet.longname
        isContainer == doclet.kind \in containers
        match == execBeforeColon(longname)
        fakeContainer ==
            ~isContainer /\ match # NoString /\ match \in {Chars(k) : k \in containers}
        ownFile == isContainer \/ isModuleExports(doclet)
        named == doclet.name # doclet.longname
        key == IF ownFile THEN longname
               ELSE IF truthy(doclet.memberof) THEN doclet.memberof
               ELSE IF fakeContainer THEN longname
               ELSE globalName
        wantsFragment ==
            IF ownFile THEN FALSE
            ELSE IF fakeContainer THEN named
            ELSE named \/ doclet.scope = "global"
        file == getFilename(st, key)
        fragment == IF wantsFragment
                    THEN getId(file.st, longname, formatNameForLink(doclet, FALSE))
                    ELSE [st |-> file.st, id |-> <<>>]
    IN [st |-> fragment.st,
        fileUrl |-> encodeURI(file.fileUrl \o fragmentHash(fragment.id))]

(***************************************************************************)
(* Links to longnames: linkto and buildLink                                *)
(***************************************************************************)
\* \w of the regular expressions, and the other character classes they use.
WordChars == Range(LowerCaseLetters) \cup Range(UpperCaseLetters) \cup Digits \cup {"_"}

\* [\w~:/*], the characters of the type inside Array.<...>
ArrayTypeChars == WordChars \cup {"~", ":", "/", "*"}

\* [-a-zA-Z0-9#_\[\] :<~>'."()], what may follow the name of an Esri module
EsriTailChars ==
    WordChars \cup {"-", "#", "[", "]", " ", ":", "<", "~", ">", "'", ".", "\"", "(", ")"}

\* c.toUpperCase(), one character
upperChar(c) ==
    IF \E i \in DOMAIN LowerCaseLetters : LowerCaseLetters[i] = c
    THEN UpperCaseLetters[CHOOSE i \in DOMAIN LowerCaseLetters : LowerCaseLetters[i] = c]
    ELSE c

\* p occurs in s at index i
containsAt(s, i, p) == i >= 1 /\ i + Len(p) - 1 <= Len(s) /\ SubSeq(s, i, i + Len(p) - 1) = p

\* The index after the longest run of characters of a class that starts at i.
RECURSIVE runEnd(_, _, _)
runEnd(s, i, class) ==
    IF i <= Len(s) /\ s[i] \in class THEN runEnd(s, i + 1, class) ELSE i

\* The least element of a non-empty set of numbers.
least(S) == CHOOSE n \in S : \A m \in S : n <= m

ESRI_PATH ==
    <<"e", "s", "r", "i", "/">>

\* The index where /esri\/(\w*\/)*/ first matches text, 0 if it does not.
esriPathAt(text) ==
    LET at == {i \in DOMAIN text : containsAt(text, i, ESRI_PATH)}
    IN IF at = {} THEN 0 ELSE least(at)

\* parseEsriAPIString("name", parseValue): the name after the last slash of a
\* module path, or the part after the tilde of a type defined in a module;
\* the value itself (and a debug message) when nameMatchRegEx does not match.
parseEsriAPIString(parseValue) ==
    LET rawValue == parseValue
        \* /\/\w*(?=([...]*$|$))/ : a slash that only characters of the class
        \* follow; the match is the slash and the word after it
        nameAt == {i \in DOMAIN rawValue :
                     /\ rawValue[i] = "/"
                     /\ \A j \in (i + 1)..Len(rawValue) : rawValue[j] \in EsriTailChars}
        \* /esri\/(\w*\/)*(?=\w*~\w*$)/ and /(\w*:)?esri\/(\w*\/)*\w*~(?=\w*$)/
        tildeAt == {t \in DOMAIN rawValue :
                      /\ rawValue[t] = "~"
                      /\ \A j \in (t + 1)..Len(rawValue) : rawValue[j] \in WordChars}
        pathAt(t) == {e \in DOMAIN rawValue :
                        /\ containsAt(rawValue, e, ESRI_PATH)
                        /\ \A j \in (e + 5)..(t - 1) : rawValue[j] \in WordChars \cup {"/"}}
        wordStart(e) ==
            IF e > 1 /\ rawValue[e - 1] = ":"
            THEN least({b \in 1..(e - 1) :
                           \A j \in b..(e - 2) : rawValue[j] \in WordChars})
            ELSE e
    IN IF nameAt = {}
       THEN [value |-> rawValue,
             logged |-> <<[name |-> "debug", func |-> "console.info",
                           args |-> <<[type |-> "string",
                                       text |-> "%s failed to match name Regular Expression"],
                                      [type |-> "string", text |-> rawValue]>>]>>]
       ELSE IF tildeAt # {} /\ pathAt(least(tildeAt)) # {}
       THEN LET t == least(tildeAt)
                from == least({wordStart(e) : e \in pathAt(t)})
            IN [value |-> SubSeq(rawValue, 1, from - 1)
                            \o SubSeq(rawValue, t + 1, Len(rawValue)),
                logged |-> <<>>]
       ELSE LET i == least(nameAt)
            IN [value |-> SubSeq(rawValue, i + 1, runEnd(rawValue, i + 1, WordChars) - 1),
                logged |-> <<>>]

\* longname.replace(/^<|>$/g, '')
stripAngleBrackets(s) ==
    LET a == IF Len(s) > 0 /\ s[1] = "<" THEN Tail(s) ELSE s
    IN IF Len(a) > 0 /\ a[Len(a)] = ">" THEN SubSeq(a, 1, Len(a) - 1) ELSE a

URL_PREFIXES ==
    {<<"h", "t", "t", "p", ":", "/", "/">>,
     <<"h", "t", "t", "p", "s", ":", "/", "/">>,
     <<"f", "t", "p", ":", "/", "/">>,
     <<"f", "t", "p", "s", ":", "/", "/">>}

\* hasUrlPrefix(text): /^(http|ftp)s?:\/\//
hasUrlPrefix(text) == \E p \in URL_PREFIXES : startsWith(text, p)

\* isComplexTypeExpression(expr): a record type /^{.+}$/, a type union
\* /^.+\|.+$/ or a type application /^.+<.+>$/ (on one line)
isComplexTypeExpression(expr) ==
    \/ Len(expr) >= 3 /\ expr[1] = "{" /\ expr[Len(expr)] = "}"
    \/ \E i \in 2..(Len(expr) - 1) : expr[i] = "|"
    \/ Len(expr) >= 4 /\ expr[Len(expr)] = ">" /\ \E i \in 2..(Len(expr) - 2) : expr[i] = "<"

\* /\{\@.+\}/.test(longname): it looks like an inline tag
looksLikeInlineTag(s) ==
    \E i \in DOMAIN s :
        containsAt(s, i, <<"{", "@">>) /\ \E j \in (i + 3)..Len(s) : s[j] = "}"

\* /^<[\s\S]+>/.test(longname): it looks like an HTML tag
looksLikeHtmlTag(s) == Len(s) >= 3 /\ s[1] = "<" /\ \E j \in 3..Len(s) : s[j] = ">"

ARRAY_OPEN ==
    <<"a", "r", "r", "a", "y", ".", "<">>

OBJECT_OF_STRINGS ==
    <<"o", "b", "j", "e", "c", "t", ".", "<", "s", "t", "r", "i", "n", "g",
      ",", " ", "s", "t", "r", "i", "n", "g", ">">>

\* longname.match(/Array\.<[\w~:/*]*>/gi) finds a match
matchArrayRegEx(s) ==
    \E i \in DOMAIN s :
        /\ containsAt(toLowerCase(s), i, ARRAY_OPEN)
        /\ LET e == runEnd(s, i + Len(ARRAY_OPEN), ArrayTypeChars)
           IN e <= Len(s) /\ s[e] = ">"

\* longname.match(/Array\.<(?=[\w~*])/gi): where the matches start
matchSingleToMultiDimensionalArrayRegEx(s) ==
    {i \in DOMAIN s :
        /\ containsAt(toLowerCase(s), i, ARRAY_OPEN)
        /\ i + Len(ARRAY_OPEN) <= Len(s)
        /\ s[i + Len(ARRAY_OPEN)] \in WordChars \cup {"~", "*"}}

\* longname.match(/[\w~:/*]*(?=>)/i)[0]: the first run of type characters
\* that a '>' follows; NoString when there is none
matchArrayTypeRegEx(s) ==
    LET at == {p \in DOMAIN s :
                 LET e == runEnd(s, p, ArrayTypeChars) IN e <= Len(s) /\ s[e] = ">"}
    IN IF at = {} THEN NoString
       ELSE SubSeq(s, least(at), runEnd(s, least(at), ArrayTypeChars) - 1)

\* (matchArray.join('[]') + '[]').replace(/Array\.</ig, ''): one '[]' per match
RECURSIVE arraySuffix(_)
arraySuffix(n) == IF n = 0 THEN <<>> ELSE <<"[", "]">> \o arraySuffix(n - 1)

\* The pages of the built-in types on developer.mozilla.org
MDN_GLOBAL_OBJECTS ==
    <<"h", "t", "t", "p", "s", ":", "/", "/", "d", "e", "v", "e", "l", "o",
      "p", "e", "r", ".", "m", "o", "z", "i", "l", "l", "a", ".", "o", "r",
      "g", "/", "e", "n", "-", "U", "S", "/", "d", "o", "c", "s", "/", "W",
      "e", "b", "/", "J", "a", "v", "a", "S", "c", "r", "i", "p", "t", "/",
      "R", "e", "f", "e", "r", "e", "n", "c", "e", "/", "G", "l", "o", "b",
      "a", "l", "_", "O", "b", "j", "e", "c", "t", "s", "/">>

BuiltInTypes ==
    {<<"b", "o", "o", "l", "e", "a", "n">>,
     <<"f", "u", "n", "c", "t", "i", "o", "n">>,
     <<"n", "u", "m", "b", "e", "r">>,
     <<"s", "t", "r", "i", "n", "g">>}

\* text[0].toUpperCase() + text.substring(1)
capitalize(text) == <<upperChar(text[1])>> \o Tail(text)

\* buildLink(longname, linkText, options): the string returned and the
\* messages logged.  A type expression that is neither the object of strings
\* nor an array is handed to catharsis (parseType, stringifyType), a library
\* outside this repository: for it the result is left open (catharsis is
\* TRUE).
buildLink(longname, linkText, options) ==
    LET classString ==
            IF truthy(options.cssClass)
            THEN <<" ", "c", "l", "a", "s", "s", "=", "\"">> \o options.cssClass \o <<"\"">>
            ELSE <<>>
        fragmentString == fragmentHash(IF truthy(options.fragmentId)
                                       THEN options.fragmentId ELSE <<>>)
        stripped == IF truthy(longname) THEN stripAngleBrackets(longname) ELSE <<>>
        isUrl == hasUrlPrefix(stripped)
        isTypeExpression ==
            /\ ~isUrl
            /\ truthy(longname)
            /\ isComplexTypeExpression(longname)
            /\ ~looksLikeInlineTag(longname)
            /\ ~looksLikeHtmlTag(longname)
        isObjectOfStrings == toLowerCase(longname) = OBJECT_OF_STRINGS
        isArray == matchArrayRegEx(longname)
                    /\ matchSingleToMultiDimensionalArrayRegEx(longname) # {}
        arraySuffixSignature ==
            arraySuffix(Cardinality(matchSingleToMultiDimensionalArrayRegEx(longname)))
        arrayPrefixType == matchArrayTypeRegEx(longname)
        isLowerCaseWord == \A i \in DOMAIN arrayPrefixType :
                                arrayPrefixType[i] \in Range(LowerCaseLetters)
        sentenceCase ==
            IF arrayPrefixType = <<>> THEN <<>>
            ELSE <<upperChar(arrayPrefixType[1])>> \o toLowerCase(Tail(arrayPrefixType))
        esriName == parseEsriAPIString(arrayPrefixType)
        lookUpUrl(key) == IF key \in DOMAIN longnameToUrl THEN longnameToUrl[key] ELSE NoString
        plainText == IF truthy(linkText) THEN linkText ELSE longname
        mapped == IF longname \in DOMAIN options.linkMap
                  THEN options.linkMap[longname] ELSE <<>>
        isBuiltIn == toLowerCase(plainText) \in BuiltInTypes
        found ==
            IF isUrl
            THEN [fileUrl |-> stripped,
                  text |-> IF truthy(linkText) THEN linkText ELSE stripped,
                  logged |-> <<>>]
            ELSE IF isTypeExpression
            THEN IF isObjectOfStrings
                 THEN [fileUrl |-> MDN_GLOBAL_OBJECTS \o <<"S", "t", "r", "i", "n", "g">>,
                       text |-> <<"S", "t", "r", "i", "n", "g", "[", "]">>,
                       logged |-> <<>>]
                 ELSE IF isLowerCaseWord
                 THEN [fileUrl |-> lookUpUrl(sentenceCase),
                       text |-> sentenceCase \o arraySuffixSignature, logged |-> <<>>]
                 ELSE IF arrayPrefixType = <<"*">>
                 THEN [fileUrl |-> NoString,
                       text |-> <<"*">> \o arraySuffixSignature, logged |-> <<>>]
                 ELSE [fileUrl |-> lookUpUrl(arrayPrefixType),
                       text |-> esriName.value \o arraySuffixSignature,
                       logged |-> esriName.logged]
            ELSE IF truthy(mapped)
            THEN [fileUrl |-> mapped, text |-> plainText, logged |-> <<>>]
            ELSE IF isBuiltIn
            THEN [fileUrl |-> MDN_GLOBAL_OBJECTS \o capitalize(toLowerCase(plainText)),
                  text |-> capitalize(plainText), logged |-> <<>>]
            ELSE IF plainText = <<"A", "r", "r", "a", "y">>
            THEN [fileUrl |-> MDN_GLOBAL_OBJECTS \o plainText,
                  text |-> plainText, logged |-> <<>>]
            ELSE [fileUrl |-> mapped, text |-> plainText, logged |-> <<>>]
        esri == IF truthy(found.fileUrl) /\ esriPathAt(found.text) # 0
                THEN parseEsriAPIString(found.text)
                ELSE [value |-> found.text, logged |-> <<>>]
        text == IF options.monospace
                THEN <<"<", "c", "o", "d", "e", ">">> \o esri.value \o <<"<", "/", "c", "o", "d", "e", ">">>
                ELSE esri.value
    IN IF isTypeExpression /\ ~isObjectOfStrings /\ ~isArray
       THEN [result |-> <<>>, catharsis |-> TRUE, logged |-> <<>>]
       ELSE [result |-> IF ~truthy(found.fileUrl) THEN text
                        ELSE <<"<", "a", " ", "h", "r", "e", "f", "=", "\"">> \o encodeURI(found.fileUrl \o fragmentString)
                              \o <<"\"">> \o classString \o <<">">> \o text \o <<"<", "/", "a", ">">>,
             catharsis |-> FALSE,
             logged |-> found.logged \o esri.logged]

\* linkto(longname, linkText, cssClass, fragmentId)
linkto(longname, linkText, cssClass, fragmentId) ==
    buildLink(longname, linkText,
              [cssClass |-> cssClass, fragmentId |-> fragmentId,
               linkMap |-> longnameToUrl, monospace |-> FALSE])

(***************************************************************************)
(* The railsTemplate plugin: handlers.beforeParse                          *)
(***************************************************************************)
\* e.filename.match(/\.erb$/)
isErb(filename) ==
    Len(filename) >= 4 /\ SubSeq(filename, Len(filename) - 3, Len(filename)) = <<".", "e", "r", "b">>

\* source.replace(/<%.*%>/g, ''): the leftmost '<%' that a '%>' follows on
\* its line is removed together with everything up to the LAST '%>' of the
\* line ('.*' is greedy and '.' does not match a line break); the search goes
\* on behind the match.
RECURSIVE replaceTags(_)
replaceTags(source) ==
    LET closes(i) == {j \in (i + 2)..Len(source) :
                        /\ containsAt(source, j, <<"%", ">">>)
                        /\ \A k \in (i + 2)..(j - 1) : source[k] # "\n"}
        opens == {i \in DOMAIN source : containsAt(source, i, <<"<", "%">>) /\ closes(i) # {}}
    IN IF opens = {} THEN source
       ELSE LET i == least(opens)
                j == CHOOSE c \in closes(i) : \A d \in closes(i) : d <= c
            IN SubSeq(source, 1, i - 1)
                \o replaceTags(SubSeq(source, j + 2, Len(source)))

\* handlers.beforeParse(e): the event afterwards
beforeParse(ev) ==
    IF isErb(ev.filename) THEN [ev EXCEPT !.source = replaceTags(ev.source)] ELSE ev

(***************************************************************************)
(* Pruning: prune                                                          *)
(***************************************************************************)
\* A doclet as prune reads it; access is Undefined when the doclet has none.
PruneDoclet(longname, undocumented, ignore, memberof, access) ==
    [longname |-> longname, undocumented |-> undocumented, ignore |-> ignore,
     memberof |-> memberof, access |-> access]

\* env.opts.access.indexOf(value) !== -1, for an access option that is set
lists(o, value) == value \in o.access[1]

\* A variant of prune that removes private doclets only if the access option
\* is set.
prune_privateByAccessOnly(d, o) ==
    LET set == o.access # <<>>
        d1 == SelectSeq(d, LAMBDA x : ~x.undocumented)
        d2 == SelectSeq(d1, LAMBDA x : ~x.ignore)
        d3 == SelectSeq(d2, LAMBDA x : x.memberof # "<anonymous>")
        d4 == IF set /\ ~lists(o, "public")
              THEN SelectSeq(d3, LAMBDA x : x.access # "public") ELSE d3
        d5 == IF set /\ ~lists(o, "protected")
              THEN SelectSeq(d4, LAMBDA x : x.access # "protected") ELSE d4
        d6 == IF ~o.private /\ set /\ ~lists(o, "private")
              THEN SelectSeq(d5, LAMBDA x : x.access # "private") ELSE d5
        d7 == IF set /\ ~lists(o, "undefined")
              THEN SelectSeq(d6, LAMBDA x : x.access # Undefined) ELSE d6
    IN IF ~set \/ ~lists(o, "all") THEN d7 ELSE d3

\* prune(data), with env.opts = o: the collection afterwards.  data(q).remove()
\* removes the doclets that match q and keeps the order of the others.
prune(d, o) ==
    LET set == o.access # <<>>
        d1 == SelectSeq(d, LAMBDA x : ~x.undocumented)
        d2 == SelectSeq(d1, LAMBDA x : ~x.ignore)
        d3 == SelectSeq(d2, LAMBDA x : x.memberof # "<anonymous>")
        d4 == IF set /\ ~lists(o, "public")
              THEN SelectSeq(d3, LAMBDA x : x.access # "public") ELSE d3
        d5 == IF set /\ ~lists(o, "protected")
              THEN SelectSeq(d4, LAMBDA x : x.access # "protected") ELSE d4
        d6 == IF ~o.private /\ (~set \/ ~lists(o, "private"))
              THEN SelectSeq(d5, LAMBDA x : x.access # "private") ELSE d5
        d7 == IF set /\ ~lists(o, "undefined")
              THEN SelectSeq(d6, LAMBDA x : x.access # Undefined) ELSE d6
    IN IF ~set \/ ~lists(o, "all") THEN d7 ELSE d3

(***************************************************************************)
(* jsdoc/util/logger: the module logger.                                   *)
(***************************************************************************)
LEVELS ==
    [SILENT |-> 0, FATAL |-> 10, ERROR |-> 20, WARN |-> 30, INFO |-> 40,
     DEBUG |-> 50, VERBOSE |-> 1000]

\* var DEFAULT_LEVEL = LEVELS.WARN;
DEFAULT_LEVEL == LEVELS.WARN

\* var PREFIXES = {...}: there is none for VERBOSE.
PREFIXES ==
    [DEBUG |-> "DEBUG - ", ERROR |-> "ERROR - ", INFO |-> "INFO - ",
     FATAL |-> "FATAL - ", WARN |-> "WARNING - "]

\* name.toUpperCase(), for the names of the logger methods.
toUpperCase(name) ==
    CASE name = "debug" -> "DEBUG"
      [] name = "error" -> "ERROR"
      [] name = "fatal" -> "FATAL"
      [] name = "info" -> "INFO"
      [] name = "verbose" -> "VERBOSE"
      [] name = "warn" -> "WARN"

\* logger.debug = wrapLogFunction('debug', console.info); and so on.
LoggerMethods ==
    {[method |-> "debug", name |-> "debug", func |-> "console.info"],
     [method |-> "printDebug", name |-> "debug", func |-> "printToStdout"],
     [method |-> "error", name |-> "error", func |-> "console.error"],
     [method |-> "fatal", name |-> "fatal", func |-> "console.error"],
     [method |-> "info", name |-> "info", func |-> "console.info"],
     [method |-> "printInfo", name |-> "info", func |-> "printToStdout"],
     [method |-> "verbose", name |-> "verbose", func |-> "console.info"],
     [method |-> "printVerbose", name |-> "verbose", func |-> "printToStdout"],
     [method |-> "warn", name |-> "warn", func |-> "console.warn"]}

\* The arguments of a logger method: a message string, an object, or both.
LogValues == {[type |-> "string", text |-> "m"], [type |-> "object", text |-> "{}"]}

LogArgs == {<<>>} \cup {<<v>> : v \in LogValues} \cup {<<v, w>> : v, w \in LogValues}

\* What logDetails() returns: null ("" here) when the stack trace does not
\* have the expected shape, else the file and line of the caller.
LogDetails == {"", "/lib/x.js : 1 - "}

\* addPrefix(args, prefix), with the result of logDetails(); "" is no prefix.
addPrefix(args, prefix, details) ==
    IF prefix # "" /\ Len(args) > 0 /\ args[1].type = "string"
    THEN [args EXCEPT ![1].text = prefix \o details \o @]
    ELSE args

\* A variant of the wrapped function that emits what it printed.
wrapLogFunction_emitsPrinted(name, func, args, details) ==
    LET upperCaseName == toUpperCase(name)
        prefix == IF upperCaseName \in DOMAIN PREFIXES THEN PREFIXES[upperCaseName] ELSE ""
        loggerArgs == addPrefix(args, prefix, details)
    IN [printed |-> IF logLevel >= LEVELS[upperCaseName]
                    THEN <<[func |-> func, args |-> loggerArgs]>> ELSE <<>>,
        emitted |-> <<[event |-> "logger:" \o name, args |-> loggerArgs]>>]

\* The function wrapLogFunction(name, func) returns, called with args: what
\* it prints and what it emits.
wrapLogFunction(name, func, args, details) ==
    LET eventName == "logger:" \o name
        upperCaseName == toUpperCase(name)
        level == LEVELS[upperCaseName]
        prefix == IF upperCaseName \in DOMAIN PREFIXES THEN PREFIXES[upperCaseName] ELSE ""
    IN [printed |-> IF logLevel >= level
                    THEN <<[func |-> func, args |-> addPrefix(args, prefix, details)]>>
                    ELSE <<>>,
        emitted |-> <<[event |-> eventName, args |-> args]>>]

\* setLevel(level): the new logLevel; level is <<>> for undefined.
setLevel(level) == IF level # <<>> THEN level[1] ELSE DEFAULT_LEVEL

\* getLevel()
getLevel == logLevel

(***************************************************************************)
(* The Logger class.                                                       *)
(***************************************************************************)
\* export const LEVELS = {...}
Logger_LEVELS ==
    [SILENT |-> 0, FATAL |-> 10, ERROR |-> 20, WARN |-> 30, INFO |-> 40,
     DEBUG |-> 50, VERBOSE |-> 1000]

\* const DEFAULT_LEVEL = LEVELS.WARN;
Logger_DEFAULT_LEVEL == Logger_LEVELS.WARN

\* JavaScript values a level is set to: numbers and strings.
JsNumber(n) == [type |-> "number", num |-> n, str |-> ""]

JsString(t) == [type |-> "string", num |-> 0, str |-> t]

\* The value as a property key: a number in decimal notation, a string as
\* it is.
toPropertyKey(v) == IF v.type = "number" THEN ToString(v.num) ELSE v.str

\* The value as the operand of ||: 0 and '' are falsy.
isFalsy(v) == IF v.type = "number" THEN v.num = 0 ELSE v.str = ""

\* The value as a number in a comparison: <<n>>, or <<>> for NaN.
toNumber(v) ==
    IF v.type = "number" THEN <<v.num>>
    ELSE LET numerals == {n \in {Logger_LEVELS[k] : k \in DOMAIN Logger_LEVELS} :
                            ToString(n) = v.str}
         IN IF numerals = {} THEN <<>> ELSE <<CHOOSE n \in numerals : TRUE>>

\* const FUNCS = {[LEVELS.DEBUG]: 'debug', ...}, by level name.
Logger_FUNCS ==
    [DEBUG |-> "debug", ERROR |-> "error", INFO |-> "info", FATAL |-> "error",
     VERBOSE |-> "debug", WARN |-> "warn"]

\* const PREFIXES = {[LEVELS.DEBUG]: 'DEBUG: ', ...}, by level name.
Logger_PREFIXES ==
    [DEBUG |-> "DEBUG: ", ERROR |-> "ERROR: ", FATAL |-> "FATAL: ", WARN |-> "WARNING: "]

\* The level name of a level number of LEVELS.
levelNameOf(level) ==
    CHOOSE k \in DOMAIN Logger_LEVELS : Logger_LEVELS[k] = level

\* const LEVELS_BY_NUMBER = _.invert(LEVELS): the own keys are the level
\* numbers in decimal notation.
LEVELS_BY_NUMBER ==
    [key \in {ToString(Logger_LEVELS[k]) : k \in DOMAIN Logger_LEVELS} |->
        CHOOSE k \in DOMAIN Logger_LEVELS : ToString(Logger_LEVELS[k]) = key]

\* Keys every object inherits from Object.prototype.
ObjectPrototypeKeys ==
    {"constructor", "toString", "valueOf", "hasOwnProperty", "isPrototypeOf",
     "propertyIsEnumerable", "toLocaleString", "__proto__"}

\* _.isUndefined(LEVELS_BY_NUMBER[level])
isUnrecognized(level) ==
    /\ toPropertyKey(level) \notin DOMAIN LEVELS_BY_NUMBER
    /\ toPropertyKey(level) \notin ObjectPrototypeKeys

\* addPrefix(level, args)
Logger_addPrefix(level, args) ==
    LET name == levelNameOf(level)
    IN IF name \in DOMAIN Logger_PREFIXES /\ Len(args) > 0 /\ args[1].type = "string"
       THEN [args EXCEPT ![1].text = Logger_PREFIXES[name] \o @]
       ELSE args

\* A variant of _maybeLog that logs above the level of the event only.
_maybeLog_above(lg, level, args) ==
    LET n == toNumber(lg.level)
    IN IF n # <<>> /\ n[1] > level
       THEN <<[func |-> Logger_FUNCS[levelNameOf(level)],
               args |-> Logger_addPrefix(level, args)]>>
       ELSE <<>>

\* _maybeLog(level, args) of the Logger lg: the calls on its console.
_maybeLog(lg, level, args) ==
    LET n == toNumber(lg.level)
    IN IF n # <<>> /\ n[1] >= level
       THEN <<[func |-> Logger_FUNCS[levelNameOf(level)],
               args |-> Logger_addPrefix(level, args)]>>
       ELSE <<>>

\* set level(level): the Logger afterwards and what was thrown, "" if nothing.
setLoggerLevel(lg, level) ==
    IF isUnrecognized(level)
    THEN [logger |-> lg, thrown |-> "TypeError"]
    ELSE [logger |-> [lg EXCEPT !.level = level], thrown |-> ""]

\* The names of the events a Logger listens to: every level name except
\* SILENT, in lower case.
LoggerEventNames ==
    {n \in {"fatal", "error", "warn", "info", "debug", "verbose"} :
        toUpperCase(n) \in DOMAIN Logger_LEVELS \ {"SILENT"}}

\* new Logger(opts): this.level = opts.level || DEFAULT_LEVEL, then a
\* listener for every event name; opts.level is <<>> when absent.
newLogger(optsLevel) ==
    LET level == IF optsLevel = <<>> \/ isFalsy(optsLevel[1])
                 THEN JsNumber(Logger_DEFAULT_LEVEL) ELSE optsLevel[1]
    IN setLoggerLevel([level |-> JsNumber(0), listens |-> LoggerEventNames], level)

\* emitter.emit('logger:' + name, ...args): the console calls of the
\* listeners, in the order the Loggers were constructed.
RECURSIVE emitLogEvent(_, _, _, _)
emitLogEvent(lgs, name, args, k) ==
    IF k > Len(lgs) THEN <<>>
    ELSE (IF name \in lgs[k].listens
          THEN [i \in DOMAIN _maybeLog(lgs[k], Logger_LEVELS[toUpperCase(name)], args) |->
                    [logger |-> k,
                     func |-> _maybeLog(lgs[k], Logger_LEVELS[toUpperCase(name)], args)[i].func,
                     args |-> _maybeLog(lgs[k], Logger_LEVELS[toUpperCase(name)], args)[i].args]]
          ELSE <<>>)
         \o emitLogEvent(lgs, name, args, k + 1)

(***************************************************************************)
(* Start states.                                                           *)
(***************************************************************************)
DataStart ==
    /\ data = <<>>
    /\ runs = 0
    /\ pc = "idle"
    /\ start = 0
    /\ doc = 0
    /\ ancestors = <<>>

DictStart(original, conf) ==
    /\ dictionary = original
    /\ tagDictionary = original
    /\ originalDictionary = original
    /\ activeName = "original"
    /\ allowUnknownTags = conf
    /\ confAllowUnknownTags = conf
    /\ errorCalls = 0
    /\ fixture = <<>>
    /\ docSet = NoDocSet
    /\ ret = <<>>
    /\ lastArg = <<>>
    /\ prevDictionary = <<>>
    /\ beforeSwap = <<>>
    /\ swapped = FALSE
    /\ lastOp = "start"

\* var files = {}; var ids = {}; the empty linkMap; no call yet.
HelperStart ==
    /\ members = <<>>
    /\ files = <<>>
    /\ ids = <<>>
    /\ longnameToUrl = <<>>
    /\ urlToLongname = <<>>
    /\ longnameToId = <<>>
    /\ calls = <<>>

\* var logLevel = DEFAULT_LEVEL; nothing printed or emitted, no Logger object.
LogStart ==
    /\ logLevel = DEFAULT_LEVEL
    /\ printed = <<>>
    /\ emitted = <<>>
    /\ loggers = <<>>
    /\ consoleCalls = <<>>
    /\ thrown = ""

\* No access option, the private option off; no beforeParse event yet.
EnvStart ==
    /\ opts = [access |-> <<>>, private |-> FALSE]
    /\ parseEvent = [filename |-> <<>>, source |-> <<>>]

(***************************************************************************)
(* The listener collections: doclets are collected, then the resolver runs.*)
(***************************************************************************)
ListenerDoclets ==
    {Doclet(ln, k, Undefined, l) :
        ln \in Names, k \in Kinds, l \in SeqsUpTo(Names, MaxListens)}

InitListeners == DataStart /\ DictStart(JsdocDictionary, FALSE) /\ HelperStart /\ LogStart /\ EnvStart

AddListenerDoclet ==
    /\ runs = 0
    /\ Len(data) < MaxDoclets
    /\ \E d \in ListenerDoclets : data' = Append(data, d)
    /\ UNCHANGED <<envVars, runs, pc, start, doc, ancestors, dictVars, helperVars, logVars>>

AddEventListeners ==
    /\ runs < MaxRuns
    /\ data' = addEventListeners(data)
    /\ runs' = runs + 1
    /\ UNCHANGED <<envVars, pc, start, doc, ancestors, dictVars, helperVars, logVars>>

NextListeners == AddListenerDoclet \/ AddEventListeners

SpecListeners == InitListeners /\ [][NextListeners]_vars

(***************************************************************************)
(* The ancestor collections and the walk.                                  *)
(***************************************************************************)
ChainDoclets ==
    {Doclet(ln, "function", m, <<>>) : ln \in ChainNames, m \in ChainNames \cup {Undefined}}

InitAncestors == DataStart /\ DictStart(JsdocDictionary, FALSE) /\ HelperStart /\ LogStart /\ EnvStart

AddChainDoclet ==
    /\ pc = "idle"
    /\ Len(data) < MaxChain
    /\ \E d \in ChainDoclets : data' = Append(data, d)
    /\ UNCHANGED <<envVars, runs, pc, start, doc, ancestors, dictVars, helperVars, logVars>>

\* var ancestors = []; var doc = doclet;
GetAncestorsCall ==
    /\ pc = "idle"
    /\ \E i \in 1..Len(data) :
        /\ start' = i
        /\ doc' = i
    /\ ancestors' = <<>>
    /\ pc' = "loop"
    /\ UNCHANGED <<envVars, data, runs, dictVars, helperVars, logVars>>

\* A variant of the iteration that pushes the ancestor at the end.
GetAncestorsStep_push ==
    /\ pc = "loop"
    /\ doc # 0
    /\ Len(ancestors) < Len(data) + MaxOvershoot
    /\ doc' = findParent(data, data[doc])
    /\ ancestors' = IF doc' # 0 THEN Append(ancestors, doc') ELSE ancestors
    /\ UNCHANGED <<envVars, data, runs, pc, start, dictVars, helperVars, logVars>>

\* One iteration of while (doc) { doc = find(...)[0]; if (doc) ancestors.unshift(doc); }
GetAncestorsStep ==
    /\ pc = "loop"
    /\ doc # 0
    /\ Len(ancestors) < Len(data) + MaxOvershoot
    /\ doc' = findParent(data, data[doc])
    /\ ancestors' = IF doc' # 0 THEN <<doc'>> \o ancestors ELSE ancestors
    /\ UNCHANGED <<envVars, data, runs, pc, start, dictVars, helperVars, logVars>>

\* The loop condition fails: return ancestors;
GetAncestorsReturn ==
    /\ pc = "loop"
    /\ doc = 0
    /\ pc' = "done"
    /\ UNCHANGED <<envVars, data, runs, start, doc, ancestors, dictVars, helperVars, logVars>>

NextAncestors == AddChainDoclet \/ GetAncestorsCall \/ GetAncestorsStep \/ GetAncestorsReturn

SpecAncestors == InitAncestors /\ [][NextAncestors]_vars

(***************************************************************************)
(* Swapping the tag dictionary and parsing under it, as the tests of the   *)
(* dictionary-specific tags do.                                            *)
(***************************************************************************)
InitDictionary ==
    /\ DataStart
    /\ HelperStart
    /\ LogStart
    /\ EnvStart
    /\ \E original \in {JsdocDictionary, ClosureDictionary}, conf \in BOOLEAN :
        DictStart(original, conf)

\* What a call leaves of the previous getDocSetFromFile call: nothing.
ForgetDocSet == fixture' = <<>> /\ docSet' = NoDocSet

\* The queries as they were before the first swap that is not yet restored.
RememberBeforeSwap ==
    /\ swapped' = TRUE
    /\ beforeSwap' = IF swapped THEN beforeSwap
                     ELSE <<[helper |-> HelperQueries, parser |-> ParserQueries]>>

\* beforeEach: unknown tags are not allowed; a fresh spy on logger.error.
BeforeEach ==
    /\ allowUnknownTags' = FALSE
    /\ errorCalls' = 0
    /\ lastOp' = "beforeEach"
    /\ ForgetDocSet
    /\ UNCHANGED <<envVars, dictionary, tagDictionary, originalDictionary, activeName,
                   confAllowUnknownTags, ret, lastArg, prevDictionary, beforeSwap,
                   swapped, dataVars, helperVars, logVars>>

\* jasmine.replaceTagDictionary(name): a new dictionary of the named tags goes
\* to jsdoc/doclet._replaceDictionary, which sets the tag parser's dictionary
\* and calls templateHelper._replaceDictionary.
ReplaceTagDictionary ==
    \E dictionaryName \in DictionaryNames :
        LET dict == builtIn(dictionaryName)
            r == _replaceDictionary(dict)
        IN /\ tagDictionary' = dict
           /\ dictionary' = r.dictionary
           /\ ret' = r.ret
           /\ lastArg' = <<dict>>
           /\ prevDictionary' = <<dictionary>>
           /\ activeName' = dictionaryName
           /\ RememberBeforeSwap
           /\ lastOp' = "swap"
           /\ ForgetDocSet
           /\ UNCHANGED <<envVars, originalDictionary, allowUnknownTags, confAllowUnknownTags,
                          errorCalls, dataVars, helperVars, logVars>>

\* afterEach: jasmine.restoreTagDictionary() hands the original dictionary to
\* jsdoc/doclet._replaceDictionary; allowUnknownTags gets its configured value.
AfterEach ==
    LET r == _replaceDictionary(originalDictionary)
    IN /\ tagDictionary' = originalDictionary
       /\ dictionary' = r.dictionary
       /\ ret' = r.ret
       /\ lastArg' = <<originalDictionary>>
       /\ prevDictionary' = <<dictionary>>
       /\ activeName' = "original"
       /\ swapped' = FALSE
       /\ beforeSwap' = beforeSwap
       /\ allowUnknownTags' = confAllowUnknownTags
       /\ lastOp' = "restore"
       /\ ForgetDocSet
       /\ UNCHANGED <<envVars, originalDictionary, confAllowUnknownTags, errorCalls, dataVars, helperVars, logVars>>

\* templateHelper._replaceDictionary(dict), called directly: only
\* templateHelper's module variable changes.
ReplaceDictionaryDirect ==
    \E dict \in Dictionaries :
        LET r == _replaceDictionary(dict)
        IN /\ dictionary' = r.dictionary
           /\ ret' = r.ret
           /\ lastArg' = <<dict>>
           /\ prevDictionary' = <<dictionary>>
           /\ RememberBeforeSwap
           /\ lastOp' = "direct"
           /\ ForgetDocSet
           /\ UNCHANGED <<envVars, tagDictionary, originalDictionary, activeName,
                          allowUnknownTags, confAllowUnknownTags, errorCalls, dataVars, helperVars, logVars>>

\* jasmine.getDocSetFromFile(fixture)
GetDocSetFromFile ==
    /\ lastOp # "parse"
    /\ errorCalls = 0
    /\ \E f \in Fixtures :
        /\ fixture' = f
        /\ docSet' = getDocSetFromFile(f)
    /\ errorCalls' = errorCalls + docSet'.errors
    /\ lastOp' = "parse"
    /\ UNCHANGED <<envVars, dictionary, tagDictionary, originalDictionary, activeName,
                   allowUnknownTags, confAllowUnknownTags, ret, lastArg,
                   prevDictionary, beforeSwap, swapped, dataVars, helperVars, logVars>>

NextDictionary ==
    \/ BeforeEach
    \/ ReplaceTagDictionary
    \/ AfterEach
    \/ ReplaceDictionaryDirect

SpecDictionary == InitDictionary /\ [][NextDictionary]_vars

InitParse == InitDictionary

NextParse ==
    \/ BeforeEach
    \/ ReplaceTagDictionary
    \/ AfterEach
    \/ GetDocSetFromFile

SpecParse == InitParse /\ [][NextParse]_vars

(***************************************************************************)
(* Source files are parsed into the collection, then the members are       *)
(* listed.                                                                 *)
(***************************************************************************)
InitMembers == DataStart /\ DictStart(JsdocDictionary, FALSE) /\ HelperStart /\ LogStart /\ EnvStart

\* The modules the collection declares.
declared(d) == {d[i].name : i \in {j \in DOMAIN d : d[j].kind = "module"}}

\* jasmine.getDocSetFromFile(file): one more file of the program is parsed
\* (fixture holds the files parsed so far); a module is declared by one file
\* only.
ParseSourceFile ==
    /\ members = <<>>
    /\ Len(fixture) < MaxFiles
    /\ \E f \in SourceFiles :
        /\ f.module \notin declared(data)
        /\ fixture' = Append(fixture, f)
        /\ data' = data \o parseSource(f)
    /\ UNCHANGED <<envVars, runs, pc, start, doc, ancestors, dictionary, tagDictionary,
                   originalDictionary, activeName, allowUnknownTags,
                   confAllowUnknownTags, errorCalls, docSet, ret, lastArg,
                   prevDictionary, beforeSwap, swapped, lastOp, helperVars, logVars>>

GetMembers ==
    /\ fixture # <<>>
    /\ LET r == getMembers(data)
       IN /\ data' = r.data
          /\ members' = <<r.members>>
    /\ UNCHANGED <<envVars, runs, pc, start, doc, ancestors, dictVars, files, ids,
                   longnameToUrl, urlToLongname, longnameToId, calls, logVars>>

NextMembers == ParseSourceFile \/ GetMembers

SpecMembers == InitMembers /\ [][NextMembers]_vars

(***************************************************************************)
(* File names are asked for, one string after the other.                   *)
(***************************************************************************)
\* The strings file names are asked for: longnames with the punctuation of
\* scopes, namespaces and variations, names that differ in capitalisation
\* only, names that end up empty or with an underscore in front.
FilenameInputs ==
    {NoString, <<>>, <<"a">>, <<"A">>, <<"a", "_">>, <<"_">>, <<"#">>, <<"-", "_">>,
     <<"a", "#", "f">>, <<"a", "_", "f">>, <<"a", "~", "f">>, <<"a", "-", "f">>,
     <<".", "a">>, <<":", "a">>, <<"a", "(", "1", ")">>,
     MODULE_NAMESPACE \o <<"a">>, Chars("event") \o <<"-", "a">>}

InitFilenames == DataStart /\ DictStart(JsdocDictionary, FALSE) /\ HelperStart /\ LogStart /\ EnvStart

GetUniqueFilename ==
    /\ Len(calls) < MaxCalls
    /\ \E str \in FilenameInputs :
        LET r == getUniqueFilename(files, str)
        IN /\ files' = r.files
           /\ calls' = Append(calls, [op |-> "getUniqueFilename", arg |-> str,
                                      result |-> r.filename])
    /\ UNCHANGED <<envVars, dataVars, dictVars, members, ids, longnameToUrl, urlToLongname,
                   longnameToId, logVars>>

NextFilenames == GetUniqueFilename

SpecFilenames == InitFilenames /\ [][NextFilenames]_vars

(***************************************************************************)
(* Identifiers are asked for, one after the other.                         *)
(***************************************************************************)
\* The files identifiers are asked for.
IdFilenames == {"f.html", "g.html"}

\* The identifiers asked for: with and without whitespace, in both
\* capitalisations, with an underscore at the end.
IdInputs ==
    {<<"a">>, <<"A">>, <<"a", "f">>, <<"a", " ", "f">>, <<"a", "_">>, <<"a", "f", "_">>, <<>>}

InitIds == DataStart /\ DictStart(JsdocDictionary, FALSE) /\ HelperStart /\ LogStart /\ EnvStart

GetUniqueId ==
    /\ Len(calls) < MaxCalls
    /\ \E filename \in IdFilenames, id \in IdInputs :
        LET r == getUniqueId(ids, filename, id)
        IN /\ ids' = r.ids
           /\ calls' = Append(calls, [op |-> "getUniqueId", file |-> filename,
                                      arg |-> id, result |-> r.id])
    /\ UNCHANGED <<envVars, dataVars, dictVars, members, files, longnameToUrl, urlToLongname,
                   longnameToId, logVars>>

NextIds == GetUniqueId

SpecIds == InitIds /\ [][NextIds]_vars

(***************************************************************************)
(* Links are created for doclets, one after the other.                     *)
(***************************************************************************)
\* The doclets links are created for: two classes whose names differ in
\* capitalisation, the members f of A in the three scopes, a global, an
\* event, a module, the sole export of the module and a member that is
\* mistagged with the longname of the module.
LinkDoclets ==
    LET A == <<"A">>
        a == <<"a">>
        f == <<"f">>
        moduleA == MODULE_NAMESPACE \o a
    IN {LinkDoclet(A, A, "class", NoString, "global", NoString),
        LinkDoclet(a, a, "class", NoString, "global", NoString),
        LinkDoclet(f, A \o <<"#">> \o f, "function", A, "instance", NoString),
        LinkDoclet(f, A \o <<".">> \o f, "function", A, "static", NoString),
        LinkDoclet(f, A \o <<"~">> \o f, "function", A, "inner", NoString),
        LinkDoclet(f, f, "function", NoString, "global", NoString),
        LinkDoclet(A, A, "function", NoString, "global", NoString),
        LinkDoclet(f, A \o <<".">> \o Chars("event:") \o f, "event", A, "static", NoString),
        LinkDoclet(a, moduleA, "module", NoString, Undefined, NoString),
        LinkDoclet(moduleA, moduleA, "function", NoString, "static", NoString),
        LinkDoclet(a, moduleA, "member", NoString, "static", NoString)}

InitLinks == DataStart /\ DictStart(JsdocDictionary, FALSE) /\ HelperStart /\ LogStart /\ EnvStart

CreateLink ==
    /\ Len(calls) < MaxCalls
    /\ \E doclet \in LinkDoclets :
        LET r == createLink(Registries, doclet)
        IN /\ files' = r.st.files
           /\ ids' = r.st.ids
           /\ longnameToUrl' = r.st.longnameToUrl
           /\ urlToLongname' = r.st.urlToLongname
           /\ longnameToId' = r.st.longnameToId
           /\ calls' = Append(calls, [op |-> "createLink", arg |-> doclet,
                                      result |-> r.fileUrl])
    /\ UNCHANGED <<envVars, dataVars, dictVars, members, logVars>>

NextLinks == CreateLink

SpecLinks == InitLinks /\ [][NextLinks]_vars

(***************************************************************************)
(* Links to longnames: links are registered and linkto is called.          *)
(***************************************************************************)
\* The longnames linkto is called with: names, built-in types, a URL, type
\* expressions and an inline tag.
LinktoLongnames ==
    {<<"f">>,
     <<"A">>,
     <<"s", "t", "r", "i", "n", "g">>,
     <<"A", "r", "r", "a", "y">>,
     <<"h", "t", "t", "p", ":", "/", "/", "x">>,
     <<"A", "r", "r", "a", "y", ".", "<", "a", ">">>,
     <<"A", "r", "r", "a", "y", ".", "<", "*", ">">>,
     <<"A", "r", "r", "a", "y", ".", "<", "A", ">">>,
     <<"a", "|", "b">>,
     <<"O", "b", "j", "e", "c", "t", ".", "<", "s", "t", "r", "i", "n", "g", ",", " ", "s", "t", "r", "i", "n", "g", ">">>,
     <<"{", "@", "l", "i", "n", "k", " ", "f", "}">>,
     <<"m", "o", "d", "u", "l", "e", ":", "e", "s", "r", "i", "/", "A">>}

\* The link texts: none, or a text.
LinkTexts == {NoString, <<"t">>}

\* The fragment identifiers: none, or an identifier.
FragmentIds == {NoString, <<"f">>}

\* The links a template registers.
RegisteredLinks ==
    {[longname |-> <<"A">>, fileUrl |-> <<"A", ".", "h", "t", "m", "l">>],
     [longname |-> <<"m", "o", "d", "u", "l", "e", ":", "e", "s", "r", "i", "/", "A">>, fileUrl |-> <<"m", "o", "d", "u", "l", "e", "-", "e", "s", "r", "i", "_", "A", ".", "h", "t", "m", "l">>]}

InitLinkto == DataStart /\ DictStart(JsdocDictionary, FALSE) /\ HelperStart /\ LogStart /\ EnvStart

\* helper.registerLink(longname, fileUrl)
RegisterLink ==
    /\ \E link \in RegisteredLinks :
        /\ link.longname \notin DOMAIN longnameToUrl
        /\ LET st == registerLink(Registries, link.longname, link.fileUrl)
           IN /\ longnameToUrl' = st.longnameToUrl
              /\ urlToLongname' = st.urlToLongname
    /\ UNCHANGED <<envVars, dataVars, dictVars, members, files, ids, longnameToId, calls, logVars>>

\* helper.linkto(longname, linkText, undefined, fragmentId)
Linkto ==
    /\ Len(calls) < MaxLinktoCalls
    /\ \E longname \in LinktoLongnames, linkText \in LinkTexts, fragmentId \in FragmentIds :
        \E r \in {linkto(longname, linkText, NoString, fragmentId)} :
           /\ calls' = Append(calls, [op |-> "linkto", arg |-> longname,
                                      linkText |-> linkText,
                                      registered |-> longname \in DOMAIN longnameToUrl,
                                      catharsis |-> r.catharsis, result |-> r.result])
           /\ IF r.logged = <<>>
              THEN UNCHANGED <<printed, emitted>>
              ELSE \E details \in LogDetails, m \in {r.logged[1]} :
                    \E log \in {wrapLogFunction(m.name, m.func, m.args, details)} :
                       /\ printed' = printed \o log.printed
                       /\ emitted' = emitted \o log.emitted
    /\ UNCHANGED <<envVars, dataVars, dictVars, members, files, ids, longnameToUrl,
                   urlToLongname, longnameToId, logLevel, loggers, consoleCalls, thrown>>

NextLinkto == RegisterLink \/ Linkto

SpecLinkto == InitLinkto /\ [][NextLinkto]_vars

(***************************************************************************)
(* The railsTemplate plugin: the parser fires beforeParse for a file.      *)
(***************************************************************************)
\* The pieces sources are made of: code, a tag, a line break.
SourceTokens == {<<"a">>, <<"c">>, <<"<", "%", "b", "%", ">">>, <<"\n">>}

\* The sources of up to n pieces.
RECURSIVE SourcesUpTo(_)
SourcesUpTo(n) ==
    IF n = 0 THEN {<<>>}
    ELSE SourcesUpTo(n - 1) \cup {s \o t : s \in SourcesUpTo(n - 1), t \in SourceTokens}

\* The names of the files parsed.
ParsedFilenames ==
    {<<"a", ".", "j", "s">>,
     <<"a", ".", "e", "r", "b">>,
     <<"a", ".", "j", "s", ".", "e", "r", "b">>,
     <<"e", "r", "b">>}

InitRails == DataStart /\ DictStart(JsdocDictionary, FALSE) /\ HelperStart /\ LogStart /\ EnvStart

\* The parser fires beforeParse with e = {filename, source}; the handler of
\* the plugin runs.  calls keeps the event as it was fired.
BeforeParse ==
    /\ \E filename \in ParsedFilenames, source \in SourcesUpTo(MaxTokens) :
        LET ev == [filename |-> filename, source |-> source]
        IN /\ parseEvent' = beforeParse(ev)
           /\ calls' = <<[op |-> "beforeParse", arg |-> ev]>>
    /\ UNCHANGED <<dataVars, dictVars, members, files, ids, longnameToUrl,
                   urlToLongname, longnameToId, logVars, opts>>

NextRails == BeforeParse

SpecRails == InitRails /\ [][NextRails]_vars

(***************************************************************************)
(* Pruning: doclets are collected, then the template prunes them.          *)
(***************************************************************************)
\* The values of doclet.access: none, those the access tag gives.
AccessValues == {Undefined, "public", "protected", "private", "package"}

\* The doclets: of every access, documented members of A, undocumented ones,
\* ignored ones and members of an anonymous class.
PruneDoclets ==
    {PruneDoclet("A.x", FALSE, FALSE, "A", a) : a \in AccessValues}
    \cup {PruneDoclet("A.x", TRUE, FALSE, "A", a) : a \in AccessValues}
    \cup {PruneDoclet("A.x", FALSE, TRUE, "A", a) : a \in AccessValues}
    \cup {PruneDoclet("<anonymous>.x", FALSE, FALSE, "<anonymous>", a) : a \in AccessValues}

\* env.opts: the access option (<<>> when not given, else the values listed)
\* and the private option.
PruneOptions ==
    {[access |-> <<>>, private |-> FALSE],
     [access |-> <<>>, private |-> TRUE],
     [access |-> <<{"all"}>>, private |-> FALSE],
     [access |-> <<{"public"}>>, private |-> FALSE],
     [access |-> <<{"public"}>>, private |-> TRUE],
     [access |-> <<{"private"}>>, private |-> FALSE],
     [access |-> <<{"protected", "undefined"}>>, private |-> FALSE],
     [access |-> <<{"all", "public"}>>, private |-> FALSE]}

InitPrune ==
    /\ DataStart
    /\ DictStart(JsdocDictionary, FALSE)
    /\ HelperStart
    /\ LogStart
    /\ opts \in PruneOptions
    /\ parseEvent = [filename |-> <<>>, source |-> <<>>]

\* The parser adds a doclet to the collection.
AddPruneDoclet ==
    /\ calls = <<>>
    /\ Len(data) < MaxPruned
    /\ \E d \in PruneDoclets : data' = Append(data, d)
    /\ UNCHANGED <<envVars, runs, pc, start, doc, ancestors, dictVars, helperVars, logVars>>

\* helper.prune(data); calls keeps the collection as it was.
Prune ==
    /\ calls = <<>>
    /\ data' = prune(data, opts)
    /\ calls' = <<[op |-> "prune", before |-> data]>>
    /\ UNCHANGED <<envVars, runs, pc, start, doc, ancestors, dictVars, members, files,
                   ids, longnameToUrl, urlToLongname, longnameToId, logVars>>

NextPrune == AddPruneDoclet \/ Prune

SpecPrune == InitPrune /\ [][NextPrune]_vars

(***************************************************************************)
(* The module logger: methods are called and the level is set.             *)
(***************************************************************************)
\* The levels setLevel is called with: the levels of LEVELS and undefined.
LevelInputs == {<<>>} \cup {<<LEVELS[k]>> : k \in DOMAIN LEVELS}

InitLogger == DataStart /\ DictStart(JsdocDictionary, FALSE) /\ HelperStart /\ LogStart /\ EnvStart

\* logger.<method>(...args)
LoggerCall ==
    /\ Len(calls) < MaxLogCalls
    /\ \E m \in LoggerMethods, args \in LogArgs, details \in LogDetails :
        LET r == wrapLogFunction(m.name, m.func, args, details)
        IN /\ printed' = printed \o r.printed
           /\ emitted' = emitted \o r.emitted
           /\ calls' = Append(calls, [op |-> m.method, name |-> m.name, func |-> m.func,
                                      args |-> args, level |-> logLevel])
    /\ UNCHANGED <<envVars, dataVars, dictVars, members, files, ids, longnameToUrl,
                   urlToLongname, longnameToId, logLevel, loggers, consoleCalls, thrown>>

\* logger.setLevel(level)
SetLevel ==
    /\ Len(calls) < MaxLogCalls
    /\ \E level \in LevelInputs :
        /\ logLevel' = setLevel(level)
        /\ calls' = Append(calls, [op |-> "setLevel", name |-> "", func |-> "",
                                   args |-> level, level |-> logLevel])
    /\ UNCHANGED <<envVars, dataVars, dictVars, members, files, ids, longnameToUrl,
                   urlToLongname, longnameToId, printed, emitted, loggers,
                   consoleCalls, thrown>>

NextLogger == LoggerCall \/ SetLevel

SpecLogger == InitLogger /\ [][NextLogger]_vars

(***************************************************************************)
(* Logger objects on one emitter: they are constructed, their level is     *)
(* set, events are emitted.  calls holds the last call, consoleCalls the   *)
(* console calls it led to.                                                *)
(***************************************************************************)
\* The values a level is set to: the numbers of LEVELS, other numbers, the
\* decimal notation of a level as a string, other strings.
LoggerLevelInputs ==
    {JsNumber(Logger_LEVELS[k]) : k \in DOMAIN Logger_LEVELS}
        \cup {JsNumber(5), JsString("10"), JsString("high"), JsString("constructor")}

\* The arguments of an event.
EventArgs ==
    {<<>>, <<[type |-> "string", text |-> "m"]>>,
     <<[type |-> "object", text |-> "{}"], [type |-> "string", text |-> "m"]>>}

InitLoggerClass == DataStart /\ DictStart(JsdocDictionary, FALSE) /\ HelperStart /\ LogStart /\ EnvStart

\* The call a transition makes, as calls keeps it: the Loggers before the
\* call and what the call threw.
LoggerOp(op, k, name, arg, thrownBy) ==
    <<[op |-> op, logger |-> k, name |-> name, arg |-> arg, levels |-> loggers,
       thrown |-> thrownBy]>>

\* new Logger({emitter, level})
NewLogger ==
    /\ Len(loggers) < MaxLoggers
    /\ \E optsLevel \in {<<>>} \cup {<<v>> : v \in LoggerLevelInputs} :
        LET r == newLogger(optsLevel)
        IN /\ loggers' = IF r.thrown = "" THEN Append(loggers, r.logger) ELSE loggers
           /\ thrown' = r.thrown
           /\ calls' = LoggerOp("new", Len(loggers) + 1, "", optsLevel, r.thrown)
    /\ consoleCalls' = <<>>
    /\ UNCHANGED <<envVars, dataVars, dictVars, members, files, ids, longnameToUrl,
                   urlToLongname, longnameToId, logLevel, printed, emitted>>

\* logger.level = level
SetLoggerLevel ==
    /\ \E k \in DOMAIN loggers, level \in LoggerLevelInputs :
        LET r == setLoggerLevel(loggers[k], level)
        IN /\ loggers' = [loggers EXCEPT ![k] = r.logger]
           /\ thrown' = r.thrown
           /\ calls' = LoggerOp("setLevel", k, "", <<level>>, r.thrown)
    /\ consoleCalls' = <<>>
    /\ UNCHANGED <<envVars, dataVars, dictVars, members, files, ids, longnameToUrl,
                   urlToLongname, longnameToId, logLevel, printed, emitted>>

\* emitter.emit('logger:' + name, ...args)
EmitLogEvent ==
    /\ \E name \in LoggerEventNames, args \in EventArgs :
        /\ consoleCalls' = emitLogEvent(loggers, name, args, 1)
        /\ calls' = LoggerOp("emit", 0, name, args, "")
    /\ thrown' = ""
    /\ UNCHANGED <<envVars, dataVars, dictVars, members, files, ids, longnameToUrl,
                   urlToLongname, longnameToId, logLevel, printed, emitted, loggers>>

NextLoggerClass == NewLogger \/ SetLoggerLevel \/ EmitLogEvent

SpecLoggerClass == InitLoggerClass /\ [][NextLoggerClass]_vars

(***************************************************************************)
(* Properties of the listener back-references.                             *)
(***************************************************************************)
Count(s, x) == Cardinality({i \in DOMAIN s : s[i] = x})

\* The doclet an event longname resolves to: the first doclet of kind event
\* with that longname, 0 when there is none.
EventNamed(d, n) ==
    LET candidates == {i \in DOMAIN d : d[i].longname = n /\ d[i].kind = "event"}
    IN IF candidates = {} THEN 0
       ELSE CHOOSE i \in candidates : \A k \in candidates : i <= k

Repeat(x, n) == [i \in 1..n |-> x]

\* The longnames of the doclets i..Len(d) that listen to n, in collection
\* order, once per listens entry that names n.
RECURSIVE ListenersOf(_, _, _)
ListenersOf(d, n, i) ==
    IF i > Len(d) THEN <<>>
    ELSE Repeat(d[i].longname, Count(d[i].listens, n)) \o ListenersOf(d, n, i + 1)

\* The listens entries of the collection, as pairs <<doclet, entry>>.
Entries(d) == {<<l, j>> \in (DOMAIN d) \X (1..MaxListens + 1) : j <= Len(d[l].listens)}

RECURSIVE SumLen(_, _)
SumLen(d, i) == IF i > Len(d) THEN 0 ELSE Len(d[i].listeners) + SumLen(d, i + 1)

\* C1 (as claimed): after addEventListeners has run twice, an event doclet E that
\* a doclet L listens to (L.listens = [E.longname], L the only doclet of its
\* longname) has L.longname in E.listeners exactly once.
C1_ListenerExactlyOnceAfterTwoRuns ==
    runs = 2 =>
        \A e, l \in DOMAIN data :
            ( /\ EventNamed(data, data[e].longname) = e
              /\ data[l].listens = <<data[e].longname>>
              /\ \A k \in DOMAIN data : data[k].longname = data[l].longname => k = l )
            => Count(data[e].listeners, data[l].longname) = 1

\* C3: after one run of addEventListeners on a collection without listeners
\* fields, every event doclet that a listens entry resolves to has a listeners
\* array that contains the listener's longname, and the array holds the
\* listeners in the order in which the listener doclets appear in the collection.
C3_ListenersAppendedInOrder ==
    runs = 1 =>
        LET event == [n \in Names |-> EventNamed(data, n)]
        IN /\ \A <<l, j>> \in Entries(data) :
                LET e == event[data[l].listens[j]]
                IN e # 0 =>
                    /\ data[e].hasListeners
                    /\ data[l].longname \in Range(data[e].listeners)
           /\ \A e \in DOMAIN data :
                data[e].hasListeners =>
                    data[e].listeners = ListenersOf(data, data[e].longname, 1)

\* C3 witness: one run has given an event doclet two listeners, the first from
\* an earlier doclet of the collection and the second from a later one.
C3_Witness ==
    /\ runs = 1
    /\ \E e, l1, l2 \in DOMAIN data :
        /\ l1 < l2
        /\ data[l1].longname # data[l2].longname
        /\ data[e].kind = "event"
        /\ data[e].listeners = <<data[l1].longname, data[l2].longname>>

\* C4: a listens entry that names no event doclet is skipped: nothing is
\* logged, it creates no listeners entry anywhere, a doclet that is not an event never has a listeners
\* field, an event doclet that no entry resolves to has none either, and the
\* entries after a skipped one (same doclet or later doclets) are still resolved.
C4_MissingEventSkipped ==
    runs >= 1 =>
        LET event == [n \in Names |-> EventNamed(data, n)]
            entries == Entries(data)
            target == [p \in entries |-> event[data[p[1]].listens[p[2]]]]
            skipped == {p \in entries : target[p] = 0}
            resolved == entries \ skipped
        IN /\ errorCalls = 0
           /\ \A i \in DOMAIN data :
                (data[i].kind # "event" \/ \A p \in entries : target[p] # i)
                    => ~data[i].hasListeners /\ data[i].listeners = <<>>
           /\ SumLen(data, 1) = runs * Cardinality(resolved)
           /\ \A p \in skipped : \A q \in resolved :
                (p[1] < q[1] \/ (p[1] = q[1] /\ p[2] < q[2]))
                    => data[q[1]].longname \in Range(data[target[q]].listeners)

\* C4 witness: a doclet listens first to a name that is no event (it names a
\* function doclet) and then to an event, and the event has got its listener.
C4_Witness ==
    /\ runs = 1
    /\ \E l, f, e \in DOMAIN data :
        /\ Len(data[l].listens) = 2
        /\ data[f].longname = data[l].listens[1]
        /\ data[f].kind = "function"
        /\ EventNamed(data, data[l].listens[1]) = 0
        /\ EventNamed(data, data[l].listens[2]) = e
        /\ data[e].listeners = <<data[l].longname>>

(***************************************************************************)
(* Properties of the ancestor walk.                                        *)
(***************************************************************************)
\* C2 (as claimed): the walk stops at the first repeated doclet, so it never
\* collects more ancestors than the collection has doclets.
C2_WalkBoundedByDoclets ==
    pc # "idle" => Len(ancestors) <= Len(data)

\* The doclet one memberof lookup away from data[i]: the first doclet of the
\* collection whose longname is the memberof of data[i], 0 if there is none.
ParentOf(i) ==
    LET named == {j \in DOMAIN data : data[j].longname = data[i].memberof}
    IN IF named = {} THEN 0 ELSE CHOOSE j \in named : \A k \in named : j <= k

\* C16: when the walk over the memberof chain of a doclet has ended,
\* getAncestors returns the doclets reached by successive memberof lookups,
\* the most distant first and the immediate parent last, without the doclet
\* itself; the walk ends where the memberof is absent or names no doclet,
\* and a doclet without memberof has no ancestors.
C16_AncestorsAreTheMemberofChain ==
    pc = "done" =>
        LET n == Len(ancestors)
        IN /\ start \notin Range(ancestors)
           /\ n = 0 <=> ParentOf(start) = 0
           /\ data[start].memberof = Undefined => n = 0
           /\ n > 0 =>
                /\ ancestors[n] = ParentOf(start)
                /\ \A k \in 1..(n - 1) : ancestors[k] = ParentOf(ancestors[k + 1])
                /\ ParentOf(ancestors[1]) = 0

\* The walk has ended with two ancestors, the most distant of them a member
\* of nothing.
C16_Witness ==
    /\ pc = "done"
    /\ Len(ancestors) = 2
    /\ ancestors[1] # ancestors[2]
    /\ data[ancestors[1]].memberof = Undefined

(***************************************************************************)
(* Properties of the dictionary swap.                                      *)
(***************************************************************************)
ReplaceOps == {"swap", "restore", "direct"}

C6_ReplaceReturnsPrevious ==
    lastOp \in ReplaceOps => ret = prevDictionary

\* C6 (amended): the replace operation makes its argument the active
\* dictionary and returns nothing.
C6_ReplaceSwapsAndReturnsNothing ==
    lastOp \in ReplaceOps =>
        /\ ret = <<>>
        /\ lastArg = <<dictionary>>

\* C6 witness: a replace call has just put a dictionary in the place of a
\* different one.
C6_Witness ==
    /\ lastOp = "direct"
    /\ prevDictionary # <<>>
    /\ prevDictionary # lastArg
    /\ lastArg = <<dictionary>>
    /\ ret = <<>>

\* C7 (as claimed): there is one dictionary reference for all consumers, so the
\* tag parser and templateHelper use the same dictionary in every state.
C7_AllConsumersSameDictionary ==
    dictionary = tagDictionary

\* C7 (amended): templateHelper keeps its own reference; getNamespace and
\* getUniqueFilename both answer from the dictionary last handed to
\* templateHelper's _replaceDictionary, and right after a swap or a restore
\* made through jsdoc/doclet._replaceDictionary the tag parser uses that same
\* dictionary, after a restore the original one.
C7_HelperConsumersAgree ==
    /\ lastArg # <<>> =>
        /\ \A k \in NamespaceKinds :
            getNamespace(k) = (IF k \in lastArg[1].namespaces THEN k \o ":" ELSE "")
        /\ filenameNamespaces = lastArg[1].namespaces
    /\ lastOp \in {"swap", "restore"} => dictionary = tagDictionary
    /\ lastOp = "restore" => dictionary = originalDictionary

\* C7 witness: a swap through the test helper has just replaced a dictionary
\* with other namespaces, and templateHelper and the parser use the new one.
C7_Witness ==
    /\ lastOp = "swap"
    /\ prevDictionary # <<>>
    /\ prevDictionary[1].namespaces # dictionary.namespaces
    /\ dictionary = tagDictionary
    /\ filenameNamespaces = lastArg[1].namespaces

(***************************************************************************)
(* Properties of parsing under a dictionary.                               *)
(***************************************************************************)
\* Whether a dictionary has a tag for a title, directly or by a synonym.
Recognized(dict, title) ==
    \/ title \in dict.tags
    \/ \E p \in dict.synonyms : p[1] = title /\ p[2] \in dict.tags

TagPositions(f) == {<<c, i>> \in (DOMAIN f) \X (1..MaxTags + 1) : i <= Len(f[c])}

HasTag(f, title) == \E p \in TagPositions(f) : f[p[1]][p[2]].title = title

Unknown(f) == {p \in TagPositions(f) : ~Recognized(tagDictionary, f[p[1]][p[2]].title)}

RECURSIVE ValuesOf(_, _, _)
ValuesOf(comment, title, i) ==
    IF i > Len(comment) THEN <<>>
    ELSE (IF comment[i].title = title THEN <<comment[i].value>> ELSE <<>>)
             \o ValuesOf(comment, title, i + 1)

\* C8: with unknown tags not allowed, a file with a polymerBehavior tag causes
\* a logger.error call when the jsdoc dictionary is the active one and none
\* when the closure dictionary is, whatever was active or parsed before.
C8_RecognitionDependsOnDictionary ==
    (lastOp = "parse" /\ ~allowUnknownTags /\ HasTag(fixture, "polymerBehavior")) =>
        /\ activeName = "jsdoc" => errorCalls > 0
        /\ activeName = "closure" => errorCalls = 0

\* C8 witness: a file with a polymerBehavior tag has been parsed without an
\* error under the closure dictionary, swapped in over a jsdoc original.
C8_Witness ==
    /\ lastOp = "parse"
    /\ ~allowUnknownTags
    /\ HasTag(fixture, "polymerBehavior")
    /\ activeName = "closure"
    /\ originalDictionary = JsdocDictionary
    /\ errorCalls = 0

\* C9: an unknown tag is not fatal: every comment still yields its doclet, the
\* recognized tags after it (same comment or later comments) are applied, and
\* it is reported once and ignored when unknown tags are not allowed, accepted
\* without a report when they are.
C9_UnknownTagNotFatal ==
    lastOp = "parse" =>
        /\ Len(docSet.docs) = Len(fixture)
        /\ errorCalls = (IF allowUnknownTags THEN 0 ELSE Cardinality(Unknown(fixture)))
        /\ \A c \in DOMAIN fixture :
            Len(docSet.docs[c].tags) =
                (IF allowUnknownTags
                 THEN Cardinality({p \in Unknown(fixture) : p[1] = c}) ELSE 0)
        /\ \A p \in Unknown(fixture) : \A q \in TagPositions(fixture) \ Unknown(fixture) :
            (p[1] < q[1] \/ (p[1] = q[1] /\ p[2] < q[2])) =>
                LET tag == fixture[q[1]][q[2]]
                    doclet == docSet.docs[q[1]]
                IN /\ tag.title = "author" => tag.value \in Range(doclet.author)
                   /\ tag.title = "polymerBehavior" => doclet.polymerBehavior

\* C9 witness: with unknown tags not allowed, a comment began with an unknown
\* tag; the author tag after it and the author tag of the next comment are
\* both on their doclets.
C9_Witness ==
    /\ lastOp = "parse"
    /\ ~allowUnknownTags
    /\ errorCalls = 1
    /\ Len(fixture) = 2
    /\ Len(fixture[1]) = 2
    /\ <<1, 1>> \in Unknown(fixture)
    /\ fixture[1][2].title = "author"
    /\ docSet.docs[1].author = <<fixture[1][2].value>>
    /\ Len(fixture[2]) = 1
    /\ fixture[2][1].title = "author"
    /\ docSet.docs[2].author = <<fixture[2][1].value>>

\* C10: the author field of a doclet is the array of the values of all author
\* tags of its comment: one value for one tag, N values for N tags, none lost.
C10_RepeatableTagAccumulates ==
    lastOp = "parse" =>
        \A c \in DOMAIN fixture :
            Recognized(tagDictionary, "author") =>
                docSet.docs[c].author = ValuesOf(fixture[c], "author", 1)

\* C10 witness: a comment with two author tags has given a doclet whose author
\* array holds both values.
C10_Witness ==
    /\ lastOp = "parse"
    /\ \E c \in DOMAIN fixture :
        /\ Len(ValuesOf(fixture[c], "author", 1)) = 2
        /\ Range(docSet.docs[c].author) = {"Jane Doe", "John Doe"}

(***************************************************************************)
(* Properties of the members listing and of the default export.            *)
(***************************************************************************)
\* The doclet is the sole export of a module, as the listing of globals
\* must see it.
SoleExport(x) ==
    x.longname = x.name /\ startsWith(x.longname, MODULE_NAMESPACE) /\ x.kind # "module"

GlobalCandidate(x) == x.kind \in GlobalKinds /\ x.memberof = NoString

\* C11: the globals getMembers returns are doclets of kind member, function,
\* constant or typedef without memberof, none of them is the sole export of a
\* module (longname equal to name, starting with module:, kind not module),
\* and every other doclet of those kinds without memberof is listed.
C11_GlobalsExcludeModuleExports ==
    members # <<>> =>
        LET globals == members[1].globals
        IN /\ \A k \in DOMAIN globals :
                /\ globals[k] \in DOMAIN data
                /\ GlobalCandidate(data[globals[k]])
                /\ ~SoleExport(data[globals[k]])
           /\ \A i \in DOMAIN data :
                (GlobalCandidate(data[i]) /\ ~SoleExport(data[i]))
                    => Count(globals, i) = 1

\* The members were listed for a collection that holds the sole export of a
\* module, a function or a value, and a global that is none.
C11_Witness ==
    /\ members # <<>>
    /\ \E i \in DOMAIN data : GlobalCandidate(data[i]) /\ SoleExport(data[i])
    /\ \E i \in DOMAIN data :
        /\ GlobalCandidate(data[i])
        /\ ~SoleExport(data[i])
        /\ i \in Range(members[1].globals)

\* The default export of the file, if the file is a module with a documented
\* default export.
DefaultOf(f) ==
    {f.constructs[i] : i \in {j \in DOMAIN f.constructs :
        f.module # NoString /\ f.constructs[j].isDefault
            /\ f.constructs[j].description # ""}}

\* C12: when the parsed file is a module whose default export is a documented
\* value, the collection holds exactly one doclet with the module's longname
\* and the kind of the export (member, not module), and that doclet has the
\* description of the export.
C12_DefaultExportNormalized ==
    \A f \in Range(fixture) :
        \A c \in DefaultOf(f) :
            LET longname == MODULE_NAMESPACE \o f.module
                own == {i \in DOMAIN data :
                            data[i].longname = longname /\ data[i].kind = c.kind}
            IN /\ Cardinality(own) = 1
               /\ c.kind # "module"
               /\ \A i \in own : data[i].description = c.description

\* The file of the test: a module whose default export is a documented value
\* (kind member), parsed next to the module's own doclet.
C12_Witness ==
    /\ \E f \in Range(fixture) :
        \E c \in DefaultOf(f) : c.kind = "member" /\ c.description = "Test value"
    /\ \E i, j \in DOMAIN data :
        /\ data[i].kind = "module"
        /\ data[j].kind = "member"
        /\ data[j].longname = data[i].longname
        /\ data[j].description = "Test value"

(***************************************************************************)
(* Properties of the registries of file names, identifiers and links.      *)
(***************************************************************************)
\* C13: the file names getUniqueFilename has returned so far are pairwise
\* distinct, also when their capitalisation is ignored, whatever strings
\* were passed, the same string twice included.
C13_FilenamesUsedOnce ==
    \A i, j \in DOMAIN calls :
        i # j => toLowerCase(calls[i].result) # toLowerCase(calls[j].result)

\* The same string was passed twice, and two strings that differ in
\* capitalisation only.
C13_Witness ==
    /\ \E i, j \in DOMAIN calls : i < j /\ calls[i].arg = calls[j].arg
    /\ \E i, j \in DOMAIN calls :
        /\ calls[i].arg # calls[j].arg
        /\ calls[i].arg # NoString
        /\ calls[j].arg # NoString
        /\ toLowerCase(calls[i].arg) = toLowerCase(calls[j].arg)

\* C14: the identifiers getUniqueId has returned for one file are pairwise
\* distinct, also when their capitalisation is ignored, whatever ids were
\* passed (ids with whitespace and ids that differ in capitalisation only
\* included).
C14_IdsUniquePerFile ==
    \A i, j \in DOMAIN calls :
        (i # j /\ calls[i].file = calls[j].file)
            => toLowerCase(calls[i].result) # toLowerCase(calls[j].result)

\* C15: two doclets with different longnames never get the same URL (file
\* name and fragment identifier) from createLink, two members of one parent
\* that share their name and differ in scope included.
C15_LinksOneToOne ==
    \A i, j \in DOMAIN calls :
        calls[i].arg.longname # calls[j].arg.longname
            => calls[i].result # calls[j].result

(***************************************************************************)
(* Properties of the module logger.                                        *)
(***************************************************************************)
\* The calls of logger methods among the calls, in order.
LogCalls == inOrder({i \in DOMAIN calls : calls[i].op # "setLevel"}, 1, Len(calls))

\* Those of them made when the level was at least the level of the method.
LevelReached(i) == calls[i].level >= LEVELS[toUpperCase(calls[i].name)]

AtLevel == SelectSeq(LogCalls, LevelReached)

\* C17: every call of a logger method emitted one event logger:<name> with
\* the arguments as the caller passed them (no prefix), whatever the level
\* was, and the calls printed are the calls made when the level was at least
\* the level of the method.
C17_EventPerCallPrintByLevel ==
    /\ Len(emitted) = Len(LogCalls)
    /\ \A k \in DOMAIN emitted :
        /\ emitted[k].event = "logger:" \o calls[LogCalls[k]].name
        /\ emitted[k].args = calls[LogCalls[k]].args
    /\ Len(printed) = Len(AtLevel)
    /\ \A k \in DOMAIN printed :
        /\ printed[k].func = calls[AtLevel[k]].func
        /\ Len(printed[k].args) = Len(calls[AtLevel[k]].args)

\* A message string was passed to a method with a prefix twice: one call was
\* printed with the prefix, the other was below the level and not printed,
\* and both were emitted.
C17_Witness ==
    /\ Len(emitted) = 2
    /\ Len(printed) = 1
    /\ \A k \in DOMAIN emitted :
        emitted[k].args # <<>> /\ emitted[k].args[1] = [type |-> "string", text |-> "m"]
    /\ printed[1].args[1].text # "m"

\* No setLevel call so far, or the last one passed undefined.
DefaultInForce(n) ==
    LET sets == {i \in 1..(n - 1) : calls[i].op = "setLevel"}
    IN sets = {} \/ calls[CHOOSE i \in sets : \A j \in sets : j <= i].args = <<>>

\* C18 (as claimed): before any setLevel call and after setLevel(undefined)
\* getLevel returns LEVELS.ERROR, and of the calls made then exactly those of
\* error and fatal are printed.
C18_DefaultLevelIsError ==
    /\ DefaultInForce(Len(calls) + 1) => getLevel = LEVELS.ERROR
    /\ \A k \in DOMAIN LogCalls :
        DefaultInForce(LogCalls[k]) =>
            (LevelReached(LogCalls[k]) <=> calls[LogCalls[k]].name \in {"error", "fatal"})

(***************************************************************************)
(* Properties of the Logger class.                                         *)
(***************************************************************************)
\* The numbers of LEVELS.
LevelNumbers == {Logger_LEVELS[k] : k \in DOMAIN Logger_LEVELS}

\* The Loggers that made a console call for the last call.
Printing == {consoleCalls[c].logger : c \in DOMAIN consoleCalls}

\* C19: a Logger at level V makes a console call for an emitted event
\* logger:<name> exactly if V >= LEVELS[NAME], and then one call; so at SILENT
\* nothing is printed, at VERBOSE everything, at WARN the events fatal, error
\* and warn only.
C19_PrintedIffLevelReached ==
    \A i \in DOMAIN calls :
        calls[i].op = "emit" =>
            LET NAME == toUpperCase(calls[i].name)
            IN /\ \A k \in DOMAIN calls[i].levels :
                    LET V == calls[i].levels[k].level
                    IN V.type = "number" =>
                        /\ k \in Printing <=> V.num >= Logger_LEVELS[NAME]
                        /\ Cardinality({c \in DOMAIN consoleCalls :
                                            consoleCalls[c].logger = k}) <= 1
                        /\ V.num = Logger_LEVELS.SILENT => k \notin Printing
                        /\ V.num = Logger_LEVELS.VERBOSE => k \in Printing
                        /\ V.num = Logger_LEVELS.WARN =>
                            (k \in Printing <=> NAME \in {"FATAL", "ERROR", "WARN"})
               /\ Printing \subseteq DOMAIN calls[i].levels

\* A Logger at WARN got a warn event with a message and printed it on
\* console.warn.
C19_Witness ==
    /\ calls # <<>>
    /\ calls[1].op = "emit"
    /\ calls[1].name = "warn"
    /\ calls[1].arg # <<>>
    /\ calls[1].levels # <<>>
    /\ calls[1].levels[1].level = JsNumber(Logger_LEVELS.WARN)
    /\ \E c \in DOMAIN consoleCalls :
        consoleCalls[c].logger = 1 /\ consoleCalls[c].func = "warn"

\* The value is one of the numbers of LEVELS.
IsLevelNumber(v) == v.type = "number" /\ v.num \in LevelNumbers

\* C20 (as claimed): an assignment of a value that is not one of the numbers
\* of LEVELS throws a TypeError and leaves the level as it was, and the level
\* of every Logger is one of the numbers of LEVELS at all times.
C20_LevelAlwaysValid ==
    /\ \A i \in DOMAIN calls :
        (calls[i].op = "setLevel" /\ ~IsLevelNumber(calls[i].arg[1])) =>
            /\ calls[i].thrown = "TypeError"
            /\ loggers[calls[i].logger].level = calls[i].levels[calls[i].logger].level
    /\ \A k \in DOMAIN loggers : IsLevelNumber(loggers[k].level)

\* C29 (as claimed): a Logger constructed with opts.level equal to a value
\* of LEVELS has that level after construction (SILENT included, so that it
\* logs nothing), a Logger constructed without opts.level has the level
\* WARN, and the constructor registers a listener for every level name
\* except SILENT.
C29_ConstructedWithGivenLevel ==
    \A i \in DOMAIN calls :
        (calls[i].op = "new" /\ calls[i].thrown = "") =>
            LET lg == loggers[calls[i].logger]
            IN /\ (calls[i].arg # <<>> /\ IsLevelNumber(calls[i].arg[1]))
                    => lg.level = calls[i].arg[1]
               /\ calls[i].arg = <<>> => lg.level = JsNumber(Logger_LEVELS.WARN)
               /\ lg.listens = {"fatal", "error", "warn", "info", "debug", "verbose"}

\* C26 (as claimed): getUniqueFilename never returns a hidden file name or a
\* name that starts with a dash: every returned file name is non-empty, its
\* first character is neither '.' nor '-', and its base name does not begin
\* with an underscore.
C26_NoHiddenOrDashFilename ==
    \A i \in DOMAIN calls :
        calls[i].op = "getUniqueFilename" =>
            /\ Len(calls[i].result) > 0
            /\ calls[i].result[1] \notin {".", "-", "_"}

\* The part of a URL before its fragment.
fileNameOf(url) ==
    IF \E i \in DOMAIN url : url[i] = "#"
    THEN SubSeq(url, 1, (CHOOSE i \in DOMAIN url :
                            url[i] = "#" /\ \A j \in 1..(i - 1) : url[j] # "#") - 1)
    ELSE url

\* The doclet gets an output file of its own.
hasOwnFile(doclet) == doclet.kind \in containers \/ isModuleExports(doclet)

\* The createLink call just made repeats the doclet of an earlier call,
\* returns the URL that call returned and leaves the five registries as
\* they were; the URL of a container-kind doclet has no fragment.
createLinkRepeats(last) ==
    /\ \A i \in DOMAIN calls :
        calls[i].arg = last.arg =>
            /\ last.result = calls[i].result
            /\ UNCHANGED <<files, ids, longnameToUrl, urlToLongname, longnameToId>>
    /\ last.arg.kind \in containers => \A i \in DOMAIN last.result : last.result[i] # "#"

\* C27 (as claimed): createLink is stable (a second call for the same doclet
\* returns the same URL and adds no entry to the registries of file names,
\* identifiers and links), a container-kind doclet gets a URL without a
\* fragment, and two doclets that share a longname get the same file name.
C27_StableAndSameFilePerLongname ==
    [][Len(calls') > Len(calls) =>
        LET last == calls'[Len(calls')]
        IN /\ createLinkRepeats(last)
           /\ \A i \in DOMAIN calls :
                calls[i].arg.longname = last.arg.longname
                    => fileNameOf(calls[i].result) = fileNameOf(last.result)]_vars

\* C27 (amended): createLink is stable, a container-kind doclet gets a URL
\* without a fragment, and two doclets that share a longname get the same
\* file name if both get a file of their own or if neither does and they
\* have the same memberof.
C27_StableAndSameFilePerKey ==
    [][Len(calls') > Len(calls) =>
        LET last == calls'[Len(calls')]
        IN /\ createLinkRepeats(last)
           /\ \A i \in DOMAIN calls :
                (/\ calls[i].arg.longname = last.arg.longname
                 /\ \/ hasOwnFile(calls[i].arg) /\ hasOwnFile(last.arg)
                    \/ /\ ~hasOwnFile(calls[i].arg)
                       /\ ~hasOwnFile(last.arg)
                       /\ calls[i].arg.memberof = last.arg.memberof)
                    => fileNameOf(calls[i].result) = fileNameOf(last.result)]_vars

\* createLink was called twice for one doclet, and for a module and its sole
\* export, which share a longname.
C27_Witness ==
    /\ \E i, j \in DOMAIN calls : i < j /\ calls[i].arg = calls[j].arg
    /\ \E i, j \in DOMAIN calls :
        /\ calls[i].arg # calls[j].arg
        /\ calls[i].arg.longname = calls[j].arg.longname
        /\ calls[i].arg.kind = "module"
        /\ isModuleExports(calls[j].arg)

(***************************************************************************)
(* Properties of linkto.                                                   *)
(***************************************************************************)
\* The call is for a longname that is not a URL, not a type expression and
\* not registered in the link map.
unlinked(call) ==
    /\ call.op = "linkto"
    /\ ~hasUrlPrefix(stripAngleBrackets(call.arg))
    /\ ~call.catharsis
    /\ ~(isComplexTypeExpression(call.arg) /\ ~looksLikeInlineTag(call.arg)
            /\ ~looksLikeHtmlTag(call.arg))
    /\ ~call.registered

\* C21 (as claimed): when the longname is not a URL and is not associated
\* with a URL in the link map, linkto returns plain text without an <a>
\* element: the link text if one is provided, otherwise the longname,
\* unchanged.
C21_UnlinkedLongnameIsPlainText ==
    \A i \in DOMAIN calls :
        unlinked(calls[i]) =>
            calls[i].result = IF calls[i].linkText # NoString THEN calls[i].linkText
                              ELSE calls[i].arg

(***************************************************************************)
(* Properties of the railsTemplate plugin.                                 *)
(***************************************************************************)
\* The source without its tags: each '<%' is removed together with
\* everything up to the next '%>' of its line, and nothing else.
RECURSIVE withoutTags(_)
withoutTags(source) ==
    LET closes(i) == {j \in (i + 2)..Len(source) :
                        /\ containsAt(source, j, <<"%", ">">>)
                        /\ \A k \in (i + 2)..(j - 1) : source[k] # "\n"}
        opens == {i \in DOMAIN source : containsAt(source, i, <<"<", "%">>) /\ closes(i) # {}}
    IN IF opens = {} THEN source
       ELSE LET i == least(opens)
                j == least(closes(i))
            IN SubSeq(source, 1, i - 1)
                \o withoutTags(SubSeq(source, j + 2, Len(source)))

\* C24 (as claimed): beforeParse leaves e.source unchanged for every file
\* whose name does not end in '.erb'; for a '.erb' file it removes each
\* '<% ... %>' tag and nothing else, so that the text between two tags on one
\* line is preserved.
C24_OnlyTagsRemoved ==
    \A i \in DOMAIN calls :
        calls[i].op = "beforeParse" =>
            /\ parseEvent.filename = calls[i].arg.filename
            /\ parseEvent.source = IF isErb(calls[i].arg.filename)
                                   THEN withoutTags(calls[i].arg.source)
                                   ELSE calls[i].arg.source

(***************************************************************************)
(* Properties of prune.                                                    *)
(***************************************************************************)
\* The doclet is documented, not ignored and not a member of '<anonymous>'.
included(x) == ~x.undocumented /\ ~x.ignore /\ x.memberof # "<anonymous>"

\* The access value of a doclet as the access option names it.
accessName(x) == IF x.access = Undefined THEN "undefined" ELSE x.access

\* C22: after prune(data) no doclet of the collection is undocumented,
\* ignored or a member of '<anonymous>'; when no access option is set and the
\* private option is off, no doclet left is private and every doclet that
\* is documented, not ignored, not a member of '<anonymous>' and not private
\* is still in the collection.
C22_PrunedAndNothingElse ==
    \A i \in DOMAIN calls :
        calls[i].op = "prune" =>
            /\ \A k \in DOMAIN data : included(data[k])
            /\ (opts.access = <<>> /\ ~opts.private) =>
                /\ \A k \in DOMAIN data : data[k].access # "private"
                /\ data = SelectSeq(calls[i].before,
                                    LAMBDA x : included(x) /\ x.access # "private")

\* prune ran, without access option and with the private option off, on a
\* collection with a private doclet and a protected doclet that are
\* documented; the protected doclet is left.
C22_Witness ==
    /\ opts.access = <<>>
    /\ ~opts.private
    /\ \E i \in DOMAIN calls :
        /\ calls[i].op = "prune"
        /\ \E k \in DOMAIN calls[i].before :
            included(calls[i].before[k]) /\ calls[i].before[k].access = "private"
        /\ \E k \in DOMAIN data : data[k].access = "protected"

\* C23 (as claimed): when the access option is set and does not contain
\* 'all', prune removes every doclet whose access is not one of the values
\* listed (a doclet without access counts as 'undefined'), except that
\* private doclets are kept when the private option is on; when the access
\* option contains 'all', no doclet is removed because of its access.
C23_AccessOptionFilters ==
    \A i \in DOMAIN calls :
        (calls[i].op = "prune" /\ opts.access # <<>>) =>
            data = SelectSeq(calls[i].before,
                             LAMBDA x :
                                /\ included(x)
                                /\ \/ lists(opts, "all")
                                   \/ lists(opts, accessName(x))
                                   \/ x.access = "private" /\ opts.private)

(***************************************************************************)
(* Properties of the longnames.                                            *)
(***************************************************************************)
\* The longname derived from memberof, the punctuation of the scope and the
\* name, with the namespace prefix of the kind.
derivedLongname(d) ==
    (IF d.memberof # NoString THEN d.memberof \o scopeToPunc(d.scope) ELSE <<>>)
        \o Chars(getNamespace(d.kind)) \o d.name

\* C25 (as claimed): for every doclet of the collection, memberof + the
\* punctuation of the scope + name (with the namespace prefix of a kind
\* that introduces a namespace) is the stored longname exactly; a global
\* doclet has no memberof and its longname is its name.
C25_LongnameDerivable ==
    \A i \in DOMAIN data :
        /\ data[i].longname = derivedLongname(data[i])
        /\ data[i].scope = "global" =>
            data[i].memberof = NoString /\ data[i].longname = data[i].name

====
